---- MODULE Spec2Model ----
(***************************************************************************)
(* Model of the 1C OData query service (src/mcp_servers/mcp-1c-hack):      *)
(* the plan generator LLMClient.generate_plan and the protocol client      *)
(* ODataClient.fetch under their tenacity retry decorators, the legacy     *)
(* client query_tool.ODataClient.fetch, the plan parsers, the request      *)
(* pipeline tools/query_data.py:query_1c_data, and the two builders        *)
(* ODataFilterBuilder.build and ODataUrlBuilder.build on texts.            *)
(*                                                                         *)
(* Text is a sequence of symbols.  A symbol is one character, except that  *)
(* each entity prefix word (Catalog, Document, ...) is one symbol.         *)
(* Calls into libraries (json.loads, httpx, aiohttp, the remote servers)   *)
(* are inputs: the model draws their outcome from the outcomes the library *)
(* can produce and follows the code's control flow from there.             *)
(***************************************************************************)
EXTENDS Integers, Sequences, FiniteSets, TLC

VARIABLES
    call,                  \* the entry point this behaviour exercises
    tenacity,              \* whether `from tenacity import retry` succeeded
    \* ---- LLMClient (odata_tool/llm_client.py)
    api_key,               \* self.api_key is non-empty
    model_id,              \* self.model_id is non-empty
    use_structured_output, \* self.use_structured_output
    llm_pc,                \* position inside generate_plan
    llm_attempt,           \* attempts started by the retry decorator
    llm_posts,             \* bodies POSTed in the current attempt, in order
    llm_resps,             \* responses received in the current attempt, in order
    llm_hist,              \* how each finished attempt ended, in order
    llm_result,            \* what the caller of generate_plan receives
    \* ---- ODataClient (odata_tool/odata_client.py and query_tool.py)
    client,                \* which of the two ODataClient classes is called
    base_url,              \* self.base_url is non-empty
    od_plan,               \* fetch's arguments: entity, select, top, params
    od_pc,                 \* position inside fetch
    od_attempt,            \* attempts started
    od_resps,              \* responses received in the current attempt
    od_hist,               \* how each finished attempt ended, in order
    od_result,             \* what the caller of fetch receives
    \* ---- query_1c_data (tools/query_data.py)
    pc,                    \* position inside query_1c_data
    user_query,            \* the tool's user_query argument
    env,                   \* the environment variables that are set
    explicit_entity,       \* result of _extract_explicit_entity
    fuzzy,                 \* what choose_candidates returned
    candidates,            \* the candidate list
    plan,                  \* the legacy plan that is executed
    steps,                 \* components invoked so far, in order
    tool_result,           \* what the caller of the tool receives
    \* ---- parse_plan (query_tool.py)
    parse_text,            \* the text handed to parse_plan
    parse_result,          \* what the caller of parse_plan receives
    \* ---- ODataFilterBuilder (odata_tool/filter_builder.py)
    fb_group,              \* the group handed to build
    fb_pc,                 \* position of the call of build
    fb_result,             \* what the caller of build receives
    dt_value,              \* the value handed to _normalize_datetime
    dt_pc,                 \* position of the call of _normalize_datetime
    dt_result,             \* what its caller receives
    dt_again,              \* what normalizing the returned text gives
    \* ---- ODataUrlBuilder (odata_tool/url_builder.py)
    ub_args,               \* base_url, entity, params handed to build
    ub_pc,                 \* position of the call of build
    ub_result,             \* what the caller of build receives
    ne_entity,             \* the name handed to normalize_entity_name
    ne_pc,                 \* position of the call of normalize_entity_name
    ne_result,             \* what its caller receives
    ne_again,              \* what normalizing the returned name gives
    \* ---- PlanValidator (odata_tool/plan_validator.py)
    pv_metadata,           \* the metadata the validator was constructed with
    pv_plan,               \* the plan handed to validate, as it was given
    pv_pc,                 \* position in validate, suggest_fixes, validate
    pv_errors,             \* what validate returned
    pv_fixed,              \* the plan after suggest_fixes
    pv_errors2,            \* what validate returned for the plan after the fixes
    \* ---- the plan translator (query_tool.py)
    nf_segments,           \* the clauses the filter text is made of
    nf_filter,             \* the text handed to _normalize_filter_dates
    nf_pc,                 \* position of the call of _normalize_filter_dates
    nf_result,             \* what its caller receives
    nf_again,              \* what the pass gives for the text it returned
    np_items,              \* the items of the map handed to normalize_params
    np_pc,                 \* position of the call of normalize_params
    np_result,             \* what its caller receives
    sl_plan,               \* the plan handed to _structured_to_legacy
    sl_pc,                 \* position on the legacy path
    sl_legacy,             \* what _structured_to_legacy returned
    sl_sent,               \* the parameters fetch hands to the URL builder
    \* ---- OneCManager.get_index (manager.py), one call per worker thread
    mg_pc,                 \* position of each call inside get_index
    mg_force,              \* the force_update argument of each call
    mg_waited,             \* sleeps each call made waiting for the lock
    mg_cache,              \* the cache file exists
    mg_dump,               \* the dump directory: absent, empty or ready
    mg_lock                \* the lock file exists

llmVars == <<api_key, model_id, use_structured_output, llm_pc, llm_attempt,
             llm_posts, llm_resps, llm_hist, llm_result>>
odVars  == <<client, base_url, od_plan, od_pc, od_attempt, od_resps, od_hist,
             od_result>>
qVars   == <<pc, user_query, env, explicit_entity, fuzzy, candidates, plan,
             steps, tool_result>>
ppVars  == <<parse_text, parse_result>>
fbVars  == <<fb_group, fb_pc, fb_result>>
dtVars  == <<dt_value, dt_pc, dt_result, dt_again>>
ubVars  == <<ub_args, ub_pc, ub_result>>
neVars  == <<ne_entity, ne_pc, ne_result, ne_again>>
pvVars  == <<pv_metadata, pv_plan, pv_pc, pv_errors, pv_fixed, pv_errors2>>
trVars  == <<nf_segments, nf_filter, nf_pc, nf_result, nf_again,
             np_items, np_pc, np_result, sl_plan, sl_pc, sl_legacy, sl_sent>>
mgVars  == <<mg_pc, mg_force, mg_waited, mg_cache, mg_dump, mg_lock>>
moreVars == <<neVars, pvVars, trVars, mgVars>>
fnVars  == <<fbVars, dtVars, ubVars, moreVars>>
vars    == <<call, tenacity, llmVars, odVars, qVars, ppVars, fnVars>>

----------------------------------------------------------------------------
(* Bounds of the model.                                                    *)

\* elapsed_ms values a request can measure: 0 .. MaxElapsed
MaxElapsed == 1
\* number of records in a metadata index / names in an entity listing
MaxIndexLen == 2

----------------------------------------------------------------------------
(* Text: symbols, words, entity names.                                     *)

Prefixes == {"Catalog", "Document", "InformationRegister",
             "AccumulationRegister", "ChartOfAccounts"}

\* str.lower() of one symbol
Lower(c) ==
    CASE c = "Catalog" -> "catalog"
      [] c = "Document" -> "document"
      [] c = "InformationRegister" -> "informationregister"
      [] c = "AccumulationRegister" -> "accumulationregister"
      [] c = "ChartOfAccounts" -> "chartofaccounts"
      [] c = "CATALOG" -> "catalog"
      [] c = "DateTime" -> "datetime"
      [] c = "OData" -> "odata"
      [] c = "Standard.OData" -> "standard.odata"
      [] c = "B" -> "b"
      [] c = "W" -> "w"
      [] c = "S" -> "s"
      [] OTHER -> c

\* str.lower() of a text
LowerText(t) == [i \in 1..Len(t) |-> Lower(t[i])]

\* the runs of digits of the sample texts
DigitRuns == {"2024", "00", "01", "02", "03", "05", "10", "13", "15", "30",
              "45", "61", "1", "5"}

\* the number of digits of a run
NumWidth(tok) ==
    IF tok = "2024" THEN 4 ELSE IF tok \in {"1", "5"} THEN 1 ELSE 2

\* the characters the regex class \w matches: every symbol of the sample
\* texts except white space, the backslash and the parentheses
IsWordSym(c) == c \notin {" ", "\n", "\\", "(", ")"}

\* the entity names of the sample metadata and of the sample plans
E_ITEMS == <<"Catalog", "_", "s">>
E_SALE  == <<"Document", "_", "w">>
E_BARE  == <<"s">>
\* "Catalog_s" followed by a line feed
E_LF    == <<"Catalog", "_", "s", "\n">>
NoText  == <<>>

----------------------------------------------------------------------------
(* Exceptions and the retry decorator.                                     *)

\* the classes an exception of the given type is an instance of
Bases(t) ==
    CASE t = "httpx.ConnectError" ->
            {t, "httpx.NetworkError", "httpx.TransportError", "Exception"}
      [] t = "httpx.ReadTimeout" ->
            {t, "httpx.TimeoutException", "httpx.TransportError", "Exception"}
      [] t = "aiohttp.ClientConnectorError" ->
            {t, "aiohttp.ClientError", "Exception"}
      [] t = "json.JSONDecodeError" -> {t, "ValueError", "Exception"}
      [] t = "pydantic.ValidationError" -> {t, "ValueError", "Exception"}
      [] OTHER -> {t, "Exception"}

IsInstance(t, classes) == Bases(t) \cap classes # {}

\* stop=stop_after_attempt(3), in both decorators
StopAfterAttempt == 3

\* retry=retry_if_exception_type(...) of LLMClient.generate_plan
LLMRetryTypes == {"httpx.TimeoutException", "httpx.NetworkError"}

\* a retry condition that also retries the client's own classified error
ODataRetryTypesWide ==
    {"aiohttp.ClientError", "asyncio.TimeoutError", "ODataClientError"}

\* retry=retry_if_exception_type(...) of ODataClient.fetch
ODataRetryTypes == {"aiohttp.ClientError", "asyncio.TimeoutError"}

\* What the decorator does with an attempt that raised an exception of type
\* t: without tenacity the decorator returns the function unchanged; with
\* it, an exception outside retryTypes propagates, one inside is retried
\* until the attempt limit and then wrapped in tenacity.RetryError.
RetryDecision(t, attempt, retryTypes) ==
    IF ~tenacity THEN "raise"
    ELSE IF ~IsInstance(t, retryTypes) THEN "raise"
    ELSE IF attempt >= StopAfterAttempt THEN "retry_error"
    ELSE "retry"

----------------------------------------------------------------------------
(* Plans and the texts a text-generation backend can answer with.          *)

NoPlan == [entity |-> NoText, select |-> <<>>, top |-> 0]

T_EMPTY      == ""
T_BLANK      == "   "
T_PLAN       == "{\"entity\": \"Catalog_s\", \"top\": 5}"
T_PROSE      == "Plan: {\"entity\": \"Catalog_s\"}"
T_NOJSON     == "no plan"
T_BRACES     == "{entity: Catalog_s}"
T_BADENT     == "{\"entity\": \"s\"}"
T_BADENT_TOP == "{\"entity\": \"s\", \"top\": 5}"
T_ARRAY      == "[1, 2]"
\* a JSON object whose entity string ends with the escape \n
T_ENT_LF     == "{\"entity\": \"Catalog_s\\n\"}"

Texts == {T_EMPTY, T_BLANK, T_PLAN, T_PROSE, T_NOJSON, T_BRACES, T_BADENT,
          T_BADENT_TOP, T_ARRAY, T_ENT_LF}

\* str.strip() on the sample texts
Strip(t) == IF t = T_BLANK THEN "" ELSE t

\* a parsed JSON value: its kind, its keys, and the entity and top members
JsonValue(kind, keys, entity, top) ==
    [kind |-> kind, keys |-> keys, entity |-> entity, top |-> top]

NoValue == JsonValue("none", {}, NoText, 0)

\* json.loads on the sample texts: ok is FALSE when it raises JSONDecodeError
JsonLoads(t) ==
    CASE t = T_PLAN ->
            [ok |-> TRUE, value |-> JsonValue("object", {"entity", "top"}, E_ITEMS, 5)]
      [] t = "{\"entity\": \"Catalog_s\"}" ->
            [ok |-> TRUE, value |-> JsonValue("object", {"entity"}, E_ITEMS, 0)]
      [] t = T_BADENT ->
            [ok |-> TRUE, value |-> JsonValue("object", {"entity"}, E_BARE, 0)]
      [] t = T_BADENT_TOP ->
            [ok |-> TRUE, value |-> JsonValue("object", {"entity", "top"}, E_BARE, 5)]
      [] t = T_ARRAY ->
            [ok |-> TRUE, value |-> JsonValue("array", {}, NoText, 0)]
      [] t = T_ENT_LF ->
            [ok |-> TRUE, value |-> JsonValue("object", {"entity"}, E_LF, 0)]
      [] OTHER -> [ok |-> FALSE, value |-> NoValue]

\* _JSON_PATTERN.search: the span from the first "{" to the last "}"
JsonPatternSearch(t) ==
    CASE t = T_PROSE -> [found |-> TRUE, group |-> "{\"entity\": \"Catalog_s\"}"]
      [] t \in {T_PLAN, T_BRACES, T_BADENT, T_BADENT_TOP, T_ENT_LF} ->
            [found |-> TRUE, group |-> t]
      [] OTHER -> [found |-> FALSE, group |-> ""]

\* the entity pattern of QueryPlan.validate_entity_format, applied with
\* re.match: a prefix, an underscore, one or more \w up to position n, where
\* $ holds at the end of the string and also before a line feed that ends it
EntityFormatOk(e) ==
    \E n \in 3..Len(e) :
        /\ e[1] \in Prefixes
        /\ e[2] = "_"
        /\ \A i \in 3..n : IsWordSym(e[i])
        /\ n = Len(e) \/ (n = Len(e) - 1 /\ e[Len(e)] = "\n")

\* the structured QueryPlan.model_validate: ok is FALSE when it raises
StructuredModelValidate(v) ==
    IF /\ v.kind = "object"
       /\ "entity" \in v.keys
       /\ EntityFormatOk(v.entity)
       /\ ("top" \in v.keys => v.top >= 1 /\ v.top <= 1000)
    THEN [ok |-> TRUE,
          plan |-> [entity |-> v.entity, select |-> <<>>, top |-> v.top]]
    ELSE [ok |-> FALSE, plan |-> NoPlan]

\* the outcome of a call: a value or the exception raised
Outcome(type, cause, status, raw, p) ==
    [type |-> type, cause |-> cause, status |-> status, raw |-> raw, plan |-> p]

NoOutcome == Outcome("none", "none", 0, <<>>, NoPlan)

\* _parse_structured_plan
ParseStructuredPlan(text) ==
    IF text = "" \/ Strip(text) = ""
    THEN Outcome("PlanParseError", "empty", 0, <<>>, NoPlan)
    ELSE LET raw    == Strip(text)
             direct == JsonLoads(raw)
             match  == JsonPatternSearch(raw)
             parsed == IF direct.ok THEN direct
                       ELSE JsonLoads(match.group)
             plan_  == StructuredModelValidate(parsed.value)
         IN  IF ~direct.ok /\ ~match.found
             THEN Outcome("PlanParseError", "not_json", 0, <<>>, NoPlan)
             ELSE IF ~parsed.ok
             THEN Outcome("json.JSONDecodeError", "span_not_json", 0, <<>>, NoPlan)
             ELSE IF ~plan_.ok
             THEN Outcome("PlanParseError", "plan_shape", 0, <<>>, NoPlan)
             ELSE Outcome("plan", "none", 0, <<>>, plan_.plan)

----------------------------------------------------------------------------
(* LLMClient.generate_plan.                                                *)

\* an optional string member: absent (or not a str), or present
Absent == <<>>
Some(t) == <<t>>

\* the decoded body of a chat-completion response
LLMPayload(choices, result) == [choices |-> choices, result |-> result]
Choice(content, text) == [content |-> content, text |-> text]
NoPayload == LLMPayload(<<>>, Absent)

\* the status codes a backend answers with
Statuses == {200, 400, 503}

\* a response: its status, whether response.json() succeeds, the payload
Response(status, decodes, payload) ==
    [status |-> status, decodes |-> decodes, payload |-> payload]

LLMResponses ==
    {Response(s, FALSE, NoPayload) : s \in Statuses}
    \cup {Response(200, TRUE, LLMPayload(<<Choice(Some(t), Absent)>>, Absent)) :
            t \in Texts}
    \cup {Response(200, TRUE, LLMPayload(<<Choice(Absent, Some(T_PLAN))>>, Absent)),
          Response(200, TRUE, LLMPayload(<<>>, Some(T_PLAN))),
          Response(200, TRUE, LLMPayload(<<Choice(Absent, Absent)>>, Absent))}

\* the exceptions client.post raises for a connection or timeout failure
LLMTransportErrors == {"httpx.ConnectError", "httpx.ReadTimeout"}

\* _extract_llm_text: ok is FALSE when it raises LLMClientError
ExtractLLMText(payload) ==
    IF payload.choices # <<>> /\ payload.choices[1].content # Absent
    THEN [ok |-> TRUE, text |-> payload.choices[1].content[1]]
    ELSE IF payload.choices # <<>> /\ payload.choices[1].text # Absent
    THEN [ok |-> TRUE, text |-> payload.choices[1].text[1]]
    ELSE IF payload.result # Absent
    THEN [ok |-> TRUE, text |-> payload.result[1]]
    ELSE [ok |-> FALSE, text |-> ""]

\* the request body: its keys
LLMRequestBody(structured) ==
    {"model", "messages", "temperature"}
    \cup (IF structured THEN {"response_format"} ELSE {})

\* the condition under which the POST is repeated within an attempt
NeedsStructuredRetry(status, structured, body) ==
    status >= 400 /\ structured /\ "response_format" \in body

\* a retry body that keeps response_format
RetryPayloadKeep(body) == body

\* retry_payload: the body with response_format popped
RetryPayload(body) == body \ {"response_format"}

\* generate_plan from the status check to its return, for the response kept
LLMAttemptOutcome(resp) ==
    IF resp.status >= 400
    THEN Outcome("LLMClientError", "http_status", resp.status, <<>>, NoPlan)
    ELSE IF ~resp.decodes
    THEN Outcome("LLMClientError", "decode", 0, <<>>, NoPlan)
    ELSE LET ext == ExtractLLMText(resp.payload)
             r   == ParseStructuredPlan(ext.text)
         IN  IF ~ext.ok
             THEN Outcome("LLMClientError", "shape", 0, <<>>, NoPlan)
             ELSE IF r.type \in {"PlanParseError", "plan"}
             THEN [r EXCEPT !.raw = Some(ext.text)]
             ELSE r

\* `except Exception as exc: raise LLMClientError(...)` around the POSTs:
\* the type of the exception that leaves the block for one raised inside it
LLMRequestFailed(e) ==
    IF IsInstance(e, {"Exception"}) THEN "LLMClientError" ELSE e

\* The end of an attempt: a plan is returned; an exception goes through the
\* retry decorator.
LLMFinish(outcome, attempt) ==
    LET d == RetryDecision(outcome.type, attempt, LLMRetryTypes)
    IN  /\ llm_hist' = Append(llm_hist, outcome.cause)
        /\ IF outcome.type # "plan" /\ d = "retry"
           THEN llm_pc' = "call" /\ UNCHANGED llm_result
           ELSE /\ llm_pc' = "done"
                /\ llm_result' =
                     IF outcome.type # "plan" /\ d = "retry_error"
                     THEN [outcome EXCEPT !.type = "tenacity.RetryError"]
                     ELSE outcome

\* An attempt starts: the configuration checks, the request body, the first
\* POST is sent.
LLMCall ==
    /\ llm_pc = "call"
    /\ llm_attempt' = llm_attempt + 1
    /\ llm_resps' = <<>>
    /\ IF ~api_key \/ ~model_id
       THEN /\ llm_posts' = <<>>
            /\ LLMFinish(Outcome("LLMClientError", "config", 0, <<>>, NoPlan),
                         llm_attempt + 1)
       ELSE /\ llm_posts' = <<LLMRequestBody(use_structured_output)>>
            /\ llm_pc' = "post1"
            /\ UNCHANGED <<llm_hist, llm_result>>
    /\ UNCHANGED <<fnVars, call, tenacity, api_key, model_id, use_structured_output,
                   odVars, qVars, ppVars>>

\* The first POST ends: an exception of the transport is wrapped in
\* LLMClientError; an error status in JSON mode sends the second POST;
\* any other response is processed.
LLMPost1 ==
    /\ llm_pc = "post1"
    /\ \/ /\ \E e \in LLMTransportErrors :
                LLMFinish(Outcome(LLMRequestFailed(e), "transport", 0, <<>>,
                                  NoPlan), llm_attempt)
          /\ UNCHANGED <<llm_posts, llm_resps, llm_attempt>>
       \/ \E resp \in LLMResponses :
            /\ llm_resps' = Append(llm_resps, resp)
            /\ IF NeedsStructuredRetry(resp.status, use_structured_output,
                                       llm_posts[1])
               THEN /\ llm_posts' = Append(llm_posts, RetryPayload(llm_posts[1]))
                    /\ llm_pc' = "post2"
                    /\ UNCHANGED <<llm_hist, llm_result, llm_attempt>>
               ELSE /\ LLMFinish(LLMAttemptOutcome(resp), llm_attempt)
                    /\ UNCHANGED <<llm_posts, llm_attempt>>
    /\ UNCHANGED <<fnVars, call, tenacity, api_key, model_id, use_structured_output,
                   odVars, qVars, ppVars>>

\* The second POST ends: its response replaces the first.
LLMPost2 ==
    /\ llm_pc = "post2"
    /\ \/ /\ \E e \in LLMTransportErrors :
                LLMFinish(Outcome(LLMRequestFailed(e), "transport", 0, <<>>,
                                  NoPlan), llm_attempt)
          /\ UNCHANGED <<llm_posts, llm_resps, llm_attempt>>
       \/ \E resp \in LLMResponses :
            /\ llm_resps' = Append(llm_resps, resp)
            /\ LLMFinish(LLMAttemptOutcome(resp), llm_attempt)
            /\ UNCHANGED <<llm_posts, llm_attempt>>
    /\ UNCHANGED <<fnVars, call, tenacity, api_key, model_id, use_structured_output,
                   odVars, qVars, ppVars>>

----------------------------------------------------------------------------
(* Parameters and the request URL.  A parameter map is a function from     *)
(* keys to values; a value is a text, a number n being the text <<n>>.     *)

NoParams == <<>>

\* dict.update: the entries of g over those of f
Update(f, g) ==
    [k \in DOMAIN f \cup DOMAIN g |-> IF k \in DOMAIN g THEN g[k] ELSE f[k]]

RECURSIVE JoinComma(_)
\* ",".join(parts)
JoinComma(parts) ==
    IF Len(parts) = 0 THEN <<>>
    ELSE IF Len(parts) = 1 THEN <<parts[1]>>
    ELSE <<parts[1], ",">> \o JoinComma(Tail(parts))

\* the parameters ODataClient.fetch derives from a structured plan (the
\* sample plans have no filter_group, orderby or expand)
PlanParams(p, extra) ==
    LET keys == (IF p.select # <<>> THEN {"$select"} ELSE {})
                \cup (IF p.top # 0 THEN {"$top"} ELSE {})
        own  == [k \in keys |-> IF k = "$select" THEN JoinComma(p.select)
                                ELSE <<p.top>>]
    IN  Update(own, extra)

\* _structured_to_legacy
StructuredToLegacy(p) ==
    LET keys == (IF p.select # <<>> THEN {"$select"} ELSE {})
                \cup (IF p.top # 0 THEN {"$top"} ELSE {})
    IN  [entity |-> p.entity,
         params |-> [k \in keys |-> IF k = "$select" THEN JoinComma(p.select)
                                    ELSE <<p.top>>]]

\* the key normalize_params stores an entry under: stripped, and a bare
\* recognized keyword gets its $ prefix
CanonKey(k) ==
    CASE k \in {"filter", "Filter", " filter "} -> "$filter"
      [] k \in {"select", "Select", " select "} -> "$select"
      [] k \in {"top", "Top", " top "} -> "$top"
      [] k \in {"orderby", "OrderBy", " orderby "} -> "$orderby"
      [] k \in {"format", "Format", " format "} -> "$format"
      [] k \in {"expand", "Expand", " expand "} -> "$expand"
      [] k = " " -> ""
      [] OTHER -> k

\* a run of exactly n digits: \d{n} between symbols that are no digits
IsDigits(c, n) == c \in DigitRuns /\ NumWidth(c) = n

\* a test that finds no datetime literal in any filter
HasDatetimeLiteralNever(t) == FALSE

\* "datetime'" in filter_expr.lower(): a word that ends with datetime once
\* lowered (of the sample words: datetime, DateTime), then a quote
HasDatetimeLiteral(t) ==
    \E i \in 1..(Len(t) - 1) : Lower(t[i]) = "datetime" /\ t[i + 1] = "'"

\* \d{4}-\d{2}-\d{2} at position j
IsDateAt(t, j) ==
    /\ j + 4 <= Len(t)
    /\ IsDigits(t[j], 4) /\ t[j + 1] = "-" /\ IsDigits(t[j + 2], 2)
    /\ t[j + 3] = "-" /\ IsDigits(t[j + 4], 2)

\* [Tt]\d{2}:\d{2}:\d{2} at position j
IsTimeAt(t, j) ==
    /\ j + 5 <= Len(t)
    /\ t[j] \in {"T", "t"}
    /\ IsDigits(t[j + 1], 2) /\ t[j + 2] = ":" /\ IsDigits(t[j + 3], 2)
    /\ t[j + 4] = ":" /\ IsDigits(t[j + 5], 2)

\* _DATE_RE matched at position i: the number of symbols of the match, 0
\* when there is none.  The quote is not preceded by the word datetime nor
\* by a quote; the date, with or without a time, ends with a quote.
DateMatch(t, i) ==
    IF ~(t[i] = "'" /\ (i = 1 \/ t[i - 1] \notin {"datetime", "'"})) THEN 0
    ELSE IF ~IsDateAt(t, i + 1) THEN 0
    ELSE IF i + 12 <= Len(t) /\ IsTimeAt(t, i + 6) /\ t[i + 12] = "'" THEN 13
    ELSE IF i + 6 <= Len(t) /\ t[i + 6] = "'" THEN 7
    ELSE 0

\* _repl: raw is the date between the quotes
Repl(raw) ==
    LET date_part == SubSeq(raw, 1, 5)
        time_part == IF Len(raw) > 5 THEN SubSeq(raw, 7, Len(raw))
                     ELSE <<"00", ":", "00", ":", "00">>
    IN  <<"datetime", "'">> \o date_part \o <<"T">> \o time_part \o <<"'">>

RECURSIVE DateSub(_, _)
\* _DATE_RE.sub(_repl, filter_expr) from position i on: the matches are
\* taken from left to right and do not overlap
DateSub(t, i) ==
    IF i > Len(t) THEN <<>>
    ELSE LET n == DateMatch(t, i)
         IN  (IF n = 0 THEN <<t[i]>> ELSE Repl(SubSeq(t, i + 1, i + n - 2)))
             \o DateSub(t, i + (IF n = 0 THEN 1 ELSE n))

\* _normalize_filter_dates
NormalizeFilterDates(filter_expr) ==
    IF HasDatetimeLiteral(filter_expr) THEN filter_expr
    ELSE DateSub(filter_expr, 1)

\* the value normalize_params stores under a key: a $filter text goes
\* through the date pass
StoredValue(key, value) ==
    IF key = "$filter" THEN NormalizeFilterDates(value) ELSE value

\* one turn of the loop of normalize_params: `normalized` after the item
\* <<key, value>> (a value is a text or a number other than 0; None and ""
\* are <<>>; a $filter value is a text)
StoreItem(normalized, item) ==
    LET key   == CanonKey(item[1])
        value == item[2]
    IN  IF value = <<>> \/ key = "" THEN normalized
        ELSE Update(normalized, [k \in {key} |-> StoredValue(key, value)])

RECURSIVE NormalizeItems(_)
\* the loop of normalize_params over params.items(), a sequence of
\* <<key, value>> pairs in the order of the dict
NormalizeItems(items) ==
    IF items = <<>> THEN <<>>
    ELSE StoreItem(NormalizeItems(SubSeq(items, 1, Len(items) - 1)),
                   items[Len(items)])

\* normalize_params without its default of $format
NormalizeParamItemsNoDefault(items) == NormalizeItems(items)

\* normalize_params on the items of a dict
NormalizeParamItems(items) ==
    LET normalized == NormalizeItems(items)
    IN  IF "$format" \in DOMAIN normalized THEN normalized
        ELSE Update(normalized, [k \in {"$format"} |-> <<"json">>])

\* params.items() of a map whose keys have different canonical names, in
\* some order
ItemsOf(params) ==
    LET n == Cardinality(DOMAIN params)
        order == CHOOSE o \in [1..n -> DOMAIN params] :
                    \A k \in DOMAIN params : \E i \in 1..n : o[i] = k
    IN  [i \in 1..n |-> <<order[i], params[order[i]]>>]

\* normalize_params
NormalizeParams(params) == NormalizeParamItems(ItemsOf(params))

RECURSIVE LStripUnderscore(_)
\* str.lstrip("_")
LStripUnderscore(t) ==
    IF t # <<>> /\ t[1] = "_" THEN LStripUnderscore(Tail(t)) ELSE t

\* white space
IsSpace(c) == c \in {" ", "\n"}

RECURSIVE LStripText(_)
\* str.lstrip() of a text
LStripText(t) ==
    IF t # <<>> /\ IsSpace(t[1]) THEN LStripText(Tail(t)) ELSE t

RECURSIVE RStripText(_)
\* str.rstrip() of a text
RStripText(t) ==
    IF t # <<>> /\ IsSpace(t[Len(t)])
    THEN RStripText(SubSeq(t, 1, Len(t) - 1)) ELSE t

\* str.strip() of a text
StripText(t) == LStripText(RStripText(t))

\* normalize_entity_name without the lstrip("_") of the rest
NormalizeEntityNameKeepRest(entity) ==
    IF entity = <<>> THEN entity
    ELSE LET e == StripText(entity)
         IN  IF e # <<>> /\ \E pre \in Prefixes : Lower(pre) = Lower(e[1])
             THEN <<CHOOSE pre \in Prefixes : Lower(pre) = Lower(e[1]), "_">>
                  \o Tail(e)
             ELSE e

\* normalize_entity_name
NormalizeEntityName(entity) ==
    IF entity = <<>> THEN entity
    ELSE LET e == StripText(entity)
         IN  IF e # <<>> /\ \E pre \in Prefixes : Lower(pre) = Lower(e[1])
             THEN <<CHOOSE pre \in Prefixes : Lower(pre) = Lower(e[1]), "_">>
                  \o LStripUnderscore(Tail(e))
             ELSE e

NoUrl == [entity |-> NoText, query |-> NoParams]

\* ODataUrlBuilder.build: ok is FALSE when it raises ODataClientError; the
\* URL is its entity path segment and its query parameters
UrlBuild(base, entity, params) ==
    IF ~base \/ entity = <<>>
    THEN [ok |-> FALSE, url |-> NoUrl]
    ELSE LET withFormat == IF "$format" \in DOMAIN params THEN params
                           ELSE Update(params, [k \in {"$format"} |-> <<"json">>])
             sent == {k \in DOMAIN withFormat : withFormat[k] # <<>>}
         IN  [ok |-> TRUE,
              url |-> [entity |-> NormalizeEntityName(entity),
                       query  |-> [k \in sent |-> withFormat[k]]]]

----------------------------------------------------------------------------
(* ODataClient.fetch: odata_tool.odata_client.ODataClient (decorated with  *)
(* the retry policy) and query_tool.ODataClient (not decorated).           *)

Clients == {"odata_tool", "query_tool"}

\* the bodies the data service answers with
B_VALUE == "{\"value\": []}"
B_ERROR == "{\"error\": \"x\"}"
B_HTML  == "<html>"
ODBodies == {B_VALUE, B_ERROR, B_HTML}

\* response.json(): ok is FALSE when it raises
ResponseJson(body) ==
    [ok |-> body # B_HTML, value |-> <<"json", body>>]

\* response.text()
ResponseText(body) == <<"text", body>>

ODResponse(status, body, elapsed) ==
    [status |-> status, body |-> body, elapsed |-> elapsed]

ODResponses ==
    {ODResponse(s, b, ms) : s \in Statuses, b \in ODBodies, ms \in 0..MaxElapsed}

\* what session.get raises: a connection failure, the total timeout
ODTransportErrors == {"aiohttp.ClientConnectorError", "asyncio.TimeoutError"}

\* the outcome of fetch: the envelope or the exception, with the attributes
\* ODataClientError carries (status 0, elapsed -1, response <<>>: None)
ODOutcome(type, cause, status, response, url, elapsed, params, payload) ==
    [type |-> type, cause |-> cause, status_code |-> status,
     response |-> response, url |-> url, elapsed_ms |-> elapsed,
     params |-> params, payload |-> payload]

NoODOutcome == ODOutcome("none", "none", 0, <<>>, NoUrl, -1, NoParams, <<>>)

\* the parameters fetch sends
ODParams ==
    IF client = "odata_tool" THEN PlanParams(od_plan, od_plan.params)
    ELSE NormalizeParams(od_plan.params)

\* a status test that lets client errors (4xx) through
IsErrorStatus5xx(status) == status >= 500

\* the test `response.status >= 400`
IsErrorStatus(status) == status >= 400

\* fetch from the arrival of the response head to the end of the attempt
ODResponseOutcome(resp, url, params) ==
    LET js == ResponseJson(resp.body)
    IN  IF IsErrorStatus(resp.status)
        THEN ODOutcome("ODataClientError", "http_status", resp.status,
                       IF js.ok THEN js.value ELSE ResponseText(resp.body),
                       url, resp.elapsed, params, <<>>)
        ELSE IF ~js.ok
        THEN ODOutcome("ODataClientError", "parse", resp.status, <<>>, url,
                       resp.elapsed, params, <<>>)
        ELSE ODOutcome("envelope", "none", resp.status, <<>>, url,
                       resp.elapsed, params, js.value)

\* `except aiohttp.ClientError as exc: raise ODataClientError(...)`: the
\* exception that leaves the block for one raised by the request
ODRequestFailed(e, url, params) ==
    IF IsInstance(e, {"aiohttp.ClientError"})
    THEN ODOutcome("ODataClientError", "transport", 0, <<>>, url, -1, params, <<>>)
    ELSE ODOutcome(e, "timeout", 0, <<>>, NoUrl, -1, NoParams, <<>>)

\* the retry decorator of the class called
ODRetryDecision(t, attempt) ==
    IF client = "odata_tool" THEN RetryDecision(t, attempt, ODataRetryTypes)
    ELSE "raise"

\* The end of an attempt.
ODFinish(outcome, attempt) ==
    LET d == ODRetryDecision(outcome.type, attempt)
    IN  /\ od_hist' = Append(od_hist, outcome.cause)
        /\ IF outcome.type # "envelope" /\ d = "retry"
           THEN od_pc' = "call" /\ UNCHANGED od_result
           ELSE /\ od_pc' = "done"
                /\ od_result' =
                     IF outcome.type # "envelope" /\ d = "retry_error"
                     THEN [outcome EXCEPT !.type = "tenacity.RetryError"]
                     ELSE outcome

\* An attempt starts: the parameters and the URL are built, the GET is sent.
ODCall ==
    /\ od_pc = "call"
    /\ od_attempt' = od_attempt + 1
    /\ od_resps' = <<>>
    /\ IF UrlBuild(base_url, od_plan.entity, ODParams).ok
       THEN od_pc' = "get" /\ UNCHANGED <<od_hist, od_result>>
       ELSE ODFinish(ODOutcome("ODataClientError", "config", 0, <<>>, NoUrl,
                               -1, NoParams, <<>>), od_attempt + 1)
    /\ UNCHANGED <<fnVars, call, tenacity, client, base_url, od_plan, llmVars, qVars,
                   ppVars>>

\* The GET ends: with an exception of the transport, or with a response.
ODGet ==
    /\ od_pc = "get"
    /\ LET params == ODParams
           url    == UrlBuild(base_url, od_plan.entity, params).url
       IN  \/ /\ \E e \in ODTransportErrors :
                    ODFinish(ODRequestFailed(e, url, params), od_attempt)
              /\ UNCHANGED od_resps
           \/ \E resp \in ODResponses :
                /\ od_resps' = Append(od_resps, resp)
                /\ ODFinish(ODResponseOutcome(resp, url, params), od_attempt)
    /\ UNCHANGED <<fnVars, call, tenacity, client, base_url, od_plan, od_attempt,
                   llmVars, qVars, ppVars>>

----------------------------------------------------------------------------
(* parse_plan (query_tool.py).                                             *)

NoLegacyPlan == [entity |-> NoText, params |-> NoParams]

\* the legacy QueryPlan.model_validate: ok is FALSE when it raises
LegacyModelValidate(v) ==
    IF v.kind = "object" /\ "entity" \in v.keys
    THEN [ok |-> TRUE, plan |-> [entity |-> v.entity, params |-> NoParams]]
    ELSE [ok |-> FALSE, plan |-> NoLegacyPlan]

\* parse_plan
ParsePlan(text) ==
    IF text = "" \/ Strip(text) = ""
    THEN Outcome("PlanParseError", "empty", 0, <<>>, NoLegacyPlan)
    ELSE LET raw    == Strip(text)
             direct == JsonLoads(raw)
             match  == JsonPatternSearch(raw)
             parsed == IF direct.ok THEN direct
                       ELSE JsonLoads(match.group)
             structured == StructuredModelValidate(parsed.value)
             legacy == LegacyModelValidate(parsed.value)
         IN  IF ~direct.ok /\ ~match.found
             THEN Outcome("PlanParseError", "not_json", 0, <<>>, NoLegacyPlan)
             ELSE IF ~parsed.ok
             THEN Outcome("json.JSONDecodeError", "span_not_json", 0, <<>>,
                          NoLegacyPlan)
             ELSE IF /\ parsed.value.kind = "object"
                     /\ parsed.value.keys
                          \cap {"filter_group", "select", "orderby", "top"} # {}
             THEN IF structured.ok
                  THEN Outcome("plan", "none", 0, <<>>,
                               StructuredToLegacy(structured.plan))
                  ELSE Outcome("pydantic.ValidationError", "plan_shape", 0,
                               <<>>, NoLegacyPlan)
             ELSE IF legacy.ok
             THEN Outcome("plan", "none", 0, <<>>, legacy.plan)
             ELSE Outcome("PlanParseError", "plan_shape", 0, <<>>, NoLegacyPlan)

\* A call of parse_plan.
ParsePlanCall ==
    /\ call = "parse_plan"
    /\ parse_result.type = "none"
    /\ parse_result' = ParsePlan(parse_text)
    /\ UNCHANGED <<fnVars, call, tenacity, llmVars, odVars, qVars, parse_text>>

----------------------------------------------------------------------------
(* tools/query_data.py: the helpers of query_1c_data.                      *)

\* the sample user queries: "s w", "s Catalog_s", "document_W 5", the text
\* \bCatalog_\ww\b and the text \b\d\b
Q_PLAIN   == <<"s", " ", "w">>
Q_ENTITY  == <<"s", " ", "Catalog", "_", "s">>
Q_DOC     == <<"document", "_", "W", " ", "5">>
Q_LITERAL == <<"\\", "b", "Catalog", "_", "\\", "w", "w", "\\", "b">>
Q_TOPLIT  == <<"\\", "b", "\\", "d", "\\", "b">>
Queries == {Q_PLAIN, Q_ENTITY, Q_DOC, Q_LITERAL, Q_TOPLIT}

\* all symbols of t from position a to position b are c, case ignored
RunOf(t, a, b, c) == \A j \in a..b : Lower(t[j]) = c

\* _ENTITY_PATTERN matches at position i with a name of k letters.  The
\* pattern is a raw string with doubled backslashes, so \\b and \\w are a
\* backslash followed by the letter: backslash, b, prefix, underscore,
\* backslash, one or more w, backslash, b (re.IGNORECASE).
EntityPatternAt(t, i, k) ==
    /\ k >= 1
    /\ i + 6 + k <= Len(t)
    /\ t[i] = "\\"
    /\ Lower(t[i + 1]) = "b"
    /\ \E pre \in Prefixes : Lower(pre) = Lower(t[i + 2])
    /\ t[i + 3] = "_"
    /\ t[i + 4] = "\\"
    /\ RunOf(t, i + 5, i + 4 + k, "w")
    /\ t[i + 5 + k] = "\\"
    /\ Lower(t[i + 6 + k]) = "b"

\* _extract_explicit_entity: found is FALSE when it returns None
ExtractExplicitEntity(t) ==
    LET hits == {i \in 1..Len(t) : \E k \in 1..Len(t) : EntityPatternAt(t, i, k)}
    IN  IF hits = {} THEN [found |-> FALSE, entity |-> NoText]
        ELSE LET i == CHOOSE h \in hits : \A h2 \in hits : h <= h2
                 k == CHOOSE n \in 1..Len(t) : EntityPatternAt(t, i, n)
             IN  [found |-> TRUE,
                  entity |-> <<t[i + 2], "_">> \o SubSeq(t, i + 4, i + 4 + k)]

\* the pattern of _extract_top_hint matches at i with k letters d: backslash,
\* b, backslash, one to three d, backslash, b
TopPatternAt(t, i, k) ==
    /\ k \in 1..3
    /\ i + 4 + k <= Len(t)
    /\ t[i] = "\\" /\ t[i + 1] = "b" /\ t[i + 2] = "\\"
    /\ \A j \in (i + 3)..(i + 2 + k) : t[j] = "d"
    /\ t[i + 3 + k] = "\\" /\ t[i + 4 + k] = "b"

\* _extract_top_hint: ok is FALSE when int() raises ValueError on a match,
\* which is a backslash followed by letters
ExtractTopHint(t, default) ==
    IF \E i \in 1..Len(t), k \in 1..3 : TopPatternAt(t, i, k)
    THEN [ok |-> FALSE, value |-> 0]
    ELSE [ok |-> TRUE, value |-> default]

\* default=5 of both _extract_top_hint calls
TopHintDefault == 5

\* a record of the metadata index with the WRatio score of its search_text
\* against the user query
IndexItem(type, name, score) == [type |-> type, name |-> name, score |-> score]

IndexPool == {IndexItem("Catalog", <<"s">>, 90),
              IndexItem("Document", <<"w">>, 40),
              IndexItem("catalog", <<"\\", "W", "w">>, 60)}

RECURSIVE SeqsUpTo(_, _)
\* the sequences without repetition over S of length up to n
SeqsUpTo(S, n) ==
    IF n = 0 THEN {<<>>}
    ELSE LET shorter == SeqsUpTo(S, n - 1)
         IN  shorter \cup {Append(q, x) : q \in {r \in shorter : Len(r) = n - 1},
                                          x \in S}

Range(q) == {q[i] : i \in 1..Len(q)}

Indexes == {q \in SeqsUpTo(IndexPool, MaxIndexLen) : Cardinality(Range(q)) = Len(q)}

Candidate(entity, score) == [entity |-> entity, score |-> score]

RECURSIVE SortByScore(_)
\* process.extract: the matches by score, best first
SortByScore(items) ==
    IF items = <<>> THEN <<>>
    ELSE LET i == CHOOSE a \in 1..Len(items) :
                    \A b \in 1..Len(items) :
                        \/ items[a].score > items[b].score
                        \/ items[a].score = items[b].score /\ a <= b
             rest == [j \in 1..(Len(items) - 1) |->
                        IF j < i THEN items[j] ELSE items[j + 1]]
         IN  <<items[i]>> \o SortByScore(rest)

\* limit=10 of the choose_candidates call
CandidateLimit == 10

\* choose_candidates
ChooseCandidates(index, limit) ==
    IF index = <<>> THEN <<>>
    ELSE LET sorted  == SortByScore(index)
             matches == SubSeq(sorted, 1, IF Len(sorted) < limit THEN Len(sorted)
                                          ELSE limit)
         IN  [i \in 1..Len(matches) |->
                Candidate(<<matches[i].type, "_">> \o matches[i].name,
                          matches[i].score)]

\* score=100 of the explicit candidate
ExplicitScore == 100

\* the explicit-entity insertion of query_1c_data
InsertExplicit(cands, explicit) ==
    IF /\ explicit.found
       /\ ~\E i \in 1..Len(cands) :
              LowerText(cands[i].entity) = LowerText(explicit.entity)
    THEN <<Candidate(explicit.entity, ExplicitScore)>> \o cands
    ELSE cands

\* the $metadata documents the data service answers with
X_GARBAGE == "<edmx"
X_NOSETS  == "<edmx:Edmx/>"
X_ONE     == "<EntitySet Name=\"Catalog_s\"/>"
X_TWO     == "<EntitySet Name=\"Catalog_s\"/><EntitySet Name=\"Document_w\"/>"
MetadataDocs == {X_GARBAGE, X_NOSETS, X_ONE, X_TWO}

\* _parse_entity_sets on the sample documents
ParseEntitySets(xml) ==
    CASE xml = X_ONE -> <<E_ITEMS>>
      [] xml = X_TWO -> <<E_ITEMS, E_SALE>>
      [] OTHER -> <<>>

\* the outcome of a GET of $metadata: the exception raised ("" for none),
\* or the response
MetaOutcome(raises, status, xml) ==
    [raises |-> raises, status |-> status, xml |-> xml]

MetaOutcomes ==
    {MetaOutcome(e, 0, X_GARBAGE) : e \in {"httpx.ConnectError", "httpx.ReadTimeout"}}
    \cup {MetaOutcome("", s, x) : s \in Statuses, x \in MetadataDocs}

\* list_odata_entities: ok is FALSE when it raises McpError
ListODataEntities(o) ==
    IF o.raises # "" \/ o.status >= 400 \/ ParseEntitySets(o.xml) = <<>>
    THEN [ok |-> FALSE, names |-> <<>>]
    ELSE [ok |-> TRUE, names |-> ParseEntitySets(o.xml)]

\* entity_sets[:50]
MetadataLimit == 50

\* the candidates query_1c_data builds from an entity listing
MetadataCandidates(names, explicit) ==
    LET kept == SubSeq(names, 1, IF Len(names) < MetadataLimit THEN Len(names)
                                 ELSE MetadataLimit)
    IN  InsertExplicit([i \in 1..Len(kept) |-> Candidate(kept[i], 0)], explicit)

----------------------------------------------------------------------------
(* query_1c_data.                                                          *)

EnvVars == {"ODATA_1C_URL", "API_KEY", "CLOUD_MODEL_ID", "ONEC_CONNECTION_STRING"}

\* what _manager.get_index does: the exception raised ("" for none), or the
\* index returned
GetIndexOutcomes ==
    {[raises |-> e, index |-> <<>>] : e \in {"FileNotFoundError", "RuntimeError"}}
    \cup {[raises |-> "", index |-> ix] : ix \in Indexes}

\* what the caller of the tool receives: a ToolResult or an exception, the
\* stage it comes from and the failure behind it
ToolOutcome(type, origin, cause) ==
    [type |-> type, origin |-> origin, cause |-> cause]

NoToolOutcome == ToolOutcome("none", "none", "none")

NotFound == [found |-> FALSE, entity |-> NoText]

\* `except (LLMClientError, PlanParseError)` around generate_plan
LLMCaught == {"LLMClientError", "PlanParseError"}

\* `except ODataClientError` around fetch
ODataCaught == {"ODataClientError"}

\* The tool ends.
QDone(outcome) ==
    /\ pc' = "done"
    /\ tool_result' = outcome

\* odata_client.fetch(plan.entity, plan.params) is called for plan p, after
\* the steps done.
QStartFetch(p, done) ==
    /\ pc' = "odata"
    /\ plan' = p
    /\ steps' = Append(done, "ODataClient.fetch")
    /\ od_pc' = "call"
    /\ base_url' = ("ODATA_1C_URL" \in env)
    /\ od_plan' = [entity |-> p.entity, select |-> <<>>, top |-> 0,
                   params |-> p.params]
    /\ UNCHANGED <<client, od_attempt, od_resps, od_hist, od_result,
                   tool_result>>

\* The environment is read, the configuration checked, the explicit entity
\* extracted.
QStart ==
    /\ pc = "start"
    /\ IF "ODATA_1C_URL" \notin env
          \/ "API_KEY" \notin env \/ "CLOUD_MODEL_ID" \notin env
       THEN /\ QDone(ToolOutcome("McpError", "config", "config"))
            /\ UNCHANGED explicit_entity
       ELSE /\ explicit_entity' = ExtractExplicitEntity(user_query)
            /\ pc' = "index"
            /\ UNCHANGED tool_result
    /\ UNCHANGED <<fnVars, call, tenacity, llmVars, odVars, ppVars, user_query, env,
                   fuzzy, candidates, plan, steps>>

\* The metadata index is requested (a failure leaves it empty) and the
\* candidates are chosen.
QIndex ==
    /\ pc = "index"
    /\ \E o \in GetIndexOutcomes :
         LET index == IF "ONEC_CONNECTION_STRING" \in env THEN o.index ELSE <<>>
             found == ChooseCandidates(index, CandidateLimit)
             cands == InsertExplicit(found, explicit_entity)
         IN  /\ fuzzy' = found
             /\ candidates' = cands
             /\ steps' = IF index # <<>> THEN Append(steps, "choose_candidates")
                         ELSE steps
             /\ pc' = IF cands = <<>> THEN "metadata" ELSE "plan"
    /\ UNCHANGED <<fnVars, call, tenacity, llmVars, odVars, ppVars, user_query, env,
                   explicit_entity, plan, tool_result>>

\* No candidates: list_odata_entities is called, any exception of it leaves
\* the listing empty.
QListEntities ==
    /\ pc = "metadata"
    /\ steps' = Append(steps, "list_odata_entities")
    /\ \E o \in MetaOutcomes :
         LET r == ListODataEntities(o)
         IN  IF r.ok
             THEN /\ candidates' = MetadataCandidates(r.names, explicit_entity)
                  /\ pc' = "plan"
             ELSE /\ pc' = "metadata_get"
                  /\ UNCHANGED candidates
    /\ UNCHANGED <<fnVars, call, tenacity, llmVars, odVars, ppVars, user_query, env,
                   explicit_entity, fuzzy, plan, tool_result>>

\* The listing is empty: $metadata is requested directly.
QMetadataGet ==
    /\ pc = "metadata_get"
    /\ steps' = Append(steps, "metadata_get")
    /\ \E o \in MetaOutcomes :
         IF o.raises # ""
         THEN /\ QDone(ToolOutcome("McpError", "metadata", "transport"))
              /\ UNCHANGED candidates
         ELSE IF o.status >= 400
         THEN /\ QDone(ToolOutcome("McpError", "metadata", "http_status"))
              /\ UNCHANGED candidates
         ELSE /\ candidates' = MetadataCandidates(ParseEntitySets(o.xml),
                                                  explicit_entity)
              /\ pc' = "plan"
              /\ UNCHANGED tool_result
    /\ UNCHANGED <<fnVars, call, tenacity, llmVars, odVars, ppVars, user_query, env,
                   explicit_entity, fuzzy, plan>>

\* The plan: built from the explicit entity and executed, or requested from
\* the text-generation backend.
QPlan ==
    /\ pc = "plan"
    /\ api_key' = ("API_KEY" \in env)
    /\ model_id' = ("CLOUD_MODEL_ID" \in env)
    /\ use_structured_output' = TRUE
    /\ LET top == ExtractTopHint(user_query, TopHintDefault)
       IN  IF explicit_entity.found
           THEN /\ IF top.ok
                   THEN QStartFetch([entity |-> explicit_entity.entity,
                                     params |-> [k \in {"$top"} |-> <<top.value>>]],
                                    Append(steps, "explicit_plan"))
                   ELSE /\ QDone(ToolOutcome("ValueError", "top_hint", "top_hint"))
                        /\ UNCHANGED <<plan, steps, odVars>>
                /\ UNCHANGED llm_pc
           ELSE /\ llm_pc' = "call"
                /\ pc' = "llm"
                /\ steps' = Append(steps, "generate_plan")
                /\ UNCHANGED <<plan, tool_result, odVars>>
    /\ UNCHANGED <<fnVars, call, tenacity, llm_attempt, llm_posts, llm_resps, llm_hist,
                   llm_result, ppVars, user_query, env, explicit_entity, fuzzy,
                   candidates>>

\* generate_plan has ended: its plan is translated and executed, its
\* LLMClientError or PlanParseError becomes McpError, any other exception
\* leaves the tool.
QPlanResult ==
    /\ pc = "llm"
    /\ llm_pc = "done"
    /\ LET legacy == StructuredToLegacy(llm_result.plan)
           top    == ExtractTopHint(user_query, TopHintDefault)
       IN  IF llm_result.type = "plan"
           THEN IF legacy.entity = <<>>
                THEN /\ QDone(ToolOutcome("McpError", "llm", "no_entity"))
                     /\ UNCHANGED <<plan, steps, odVars>>
                ELSE IF "$top" \in DOMAIN legacy.params
                THEN QStartFetch(legacy, steps)
                ELSE IF top.ok
                THEN QStartFetch([legacy EXCEPT !.params =
                        Update(legacy.params, [k \in {"$top"} |-> <<top.value>>])],
                        steps)
                ELSE /\ QDone(ToolOutcome("ValueError", "top_hint", "top_hint"))
                     /\ UNCHANGED <<plan, steps, odVars>>
           ELSE /\ QDone(ToolOutcome(
                          IF IsInstance(llm_result.type, LLMCaught)
                          THEN "McpError" ELSE llm_result.type,
                          "llm", llm_result.cause))
                /\ UNCHANGED <<plan, steps, odVars>>
    /\ UNCHANGED <<fnVars, call, tenacity, llmVars, ppVars, user_query, env,
                   explicit_entity, fuzzy, candidates>>

\* fetch has ended: its envelope becomes the ToolResult, its
\* ODataClientError becomes McpError, any other exception leaves the tool.
QResult ==
    /\ pc = "odata"
    /\ od_pc = "done"
    /\ QDone(IF od_result.type = "envelope"
             THEN ToolOutcome("ToolResult", "none", "none")
             ELSE ToolOutcome(IF IsInstance(od_result.type, ODataCaught)
                              THEN "McpError" ELSE od_result.type,
                              "odata", od_result.cause))
    /\ UNCHANGED <<fnVars, call, tenacity, llmVars, odVars, ppVars, user_query, env,
                   explicit_entity, fuzzy, candidates, plan, steps>>

----------------------------------------------------------------------------
(* odata_tool/filter_builder.py: ODataFilterBuilder._normalize_datetime.   *)
(* In a datetime text a run of digits is one symbol.                       *)

\* int() of a run of digits
NumVal(tok) ==
    CASE tok = "2024" -> 2024
      [] tok = "00" -> 0
      [] tok \in {"01", "1"} -> 1
      [] tok = "02" -> 2
      [] tok = "03" -> 3
      [] tok \in {"05", "5"} -> 5
      [] tok = "10" -> 10
      [] tok = "13" -> 13
      [] tok = "15" -> 15
      [] tok = "30" -> 30
      [] tok = "45" -> 45
      [] tok = "61" -> 61

\* a number printed with two digits (%02d), four for the year (%04d)
Pad(n) ==
    CASE n = 2024 -> "2024"
      [] n = 0 -> "00"
      [] n = 1 -> "01"
      [] n = 2 -> "02"
      [] n = 3 -> "03"
      [] n = 5 -> "05"
      [] n = 10 -> "10"
      [] n = 13 -> "13"
      [] n = 15 -> "15"
      [] n = 30 -> "30"
      [] n = 45 -> "45"
      [] n = 61 -> "61"

\* a datetime.datetime or datetime.date value; tz is the UTC offset of an
\* aware datetime as it prints, <<>> for a naive one
DateTime(y, mo, d, h, mi, s, us, tz) ==
    [year |-> y, month |-> mo, day |-> d, hour |-> h, minute |-> mi,
     second |-> s, microsecond |-> us, tz |-> tz]

NoDateTime == DateTime(0, 0, 0, 0, 0, 0, 0, <<>>)

\* a Python value handed to the builder: its type, str(value), and the
\* fields of a native date or datetime
PyValue(type, repr, dt) == [type |-> type, repr |-> repr, dt |-> dt]

StrValue(t) == PyValue("str", t, NoDateTime)

\* datetime.isoformat() of a value whose microsecond is 0
IsoFormat(v) ==
    <<Pad(v.year), "-", Pad(v.month), "-", Pad(v.day), "T",
      Pad(v.hour), ":", Pad(v.minute), ":", Pad(v.second)>> \o v.tz

\* the directives of a strptime format
Directives == {"%Y", "%m", "%d", "%H", "%M", "%S"}

\* the text a directive matches: %Y four digits; the others one or two
\* digits within the directive's range
DirectiveMatches(dir, tok) ==
    /\ tok \in DigitRuns
    /\ CASE dir = "%Y" -> NumWidth(tok) = 4
         [] dir = "%m" -> NumWidth(tok) <= 2 /\ NumVal(tok) \in 1..12
         [] dir = "%d" -> NumWidth(tok) <= 2 /\ NumVal(tok) \in 1..31
         [] dir = "%H" -> NumWidth(tok) <= 2 /\ NumVal(tok) \in 0..23
         [] dir = "%M" -> NumWidth(tok) <= 2 /\ NumVal(tok) \in 0..59
         [] dir = "%S" -> NumWidth(tok) <= 2 /\ NumVal(tok) \in 0..61

\* the number of days of a month
DaysInMonth(y, mo) ==
    IF mo \in {4, 6, 9, 11} THEN 30
    ELSE IF mo # 2 THEN 31
    ELSE IF y % 4 = 0 /\ (y % 100 # 0 \/ y % 400 = 0) THEN 29
    ELSE 28

\* the value of a directive in a text that matches the format, 0 when the
\* format has no such directive
FieldOf(raw, fmt, dir) ==
    IF \E i \in 1..Len(fmt) : fmt[i] = dir
    THEN NumVal(raw[CHOOSE i \in 1..Len(fmt) : fmt[i] = dir])
    ELSE 0

\* datetime.strptime(raw, fmt): ok is FALSE when it raises ValueError (the
\* text does not match the format, or the fields are no valid date or time)
Strptime(raw, fmt) ==
    IF /\ Len(raw) = Len(fmt)
       /\ \A i \in 1..Len(fmt) :
             IF fmt[i] \in Directives THEN DirectiveMatches(fmt[i], raw[i])
             ELSE raw[i] = fmt[i]
    THEN LET v == DateTime(FieldOf(raw, fmt, "%Y"), FieldOf(raw, fmt, "%m"),
                           FieldOf(raw, fmt, "%d"), FieldOf(raw, fmt, "%H"),
                           FieldOf(raw, fmt, "%M"), FieldOf(raw, fmt, "%S"),
                           0, <<>>)
         IN  IF v.day <= DaysInMonth(v.year, v.month) /\ v.second <= 59
             THEN [ok |-> TRUE, value |-> v]
             ELSE [ok |-> FALSE, value |-> NoDateTime]
    ELSE [ok |-> FALSE, value |-> NoDateTime]

F_ISO_S  == <<"%Y", "-", "%m", "-", "%d", "T", "%H", ":", "%M", ":", "%S">>
F_ISO_M  == <<"%Y", "-", "%m", "-", "%d", "T", "%H", ":", "%M">>
F_ISO_D  == <<"%Y", "-", "%m", "-", "%d">>
F_DOT_S  == <<"%d", ".", "%m", ".", "%Y", " ", "%H", ":", "%M", ":", "%S">>
F_DOT_M  == <<"%d", ".", "%m", ".", "%Y", " ", "%H", ":", "%M">>
F_DOT_D  == <<"%d", ".", "%m", ".", "%Y">>

\* the list `patterns`: a format and its add_time flag, in the order tried
Patterns ==
    <<[fmt |-> F_ISO_S, add_time |-> FALSE],
      [fmt |-> F_ISO_M, add_time |-> TRUE],
      [fmt |-> F_ISO_D, add_time |-> TRUE],
      [fmt |-> F_DOT_S, add_time |-> FALSE],
      [fmt |-> F_DOT_M, add_time |-> FALSE],
      [fmt |-> F_DOT_D, add_time |-> TRUE]>>

\* parsed.replace(hour=0, minute=0, second=0, microsecond=0)
ReplaceTime(v) == [v EXCEPT !.hour = 0, !.minute = 0, !.second = 0,
                            !.microsecond = 0]

RECURSIVE SplitColon(_)
\* str.split(":")
SplitColon(t) ==
    IF \E i \in 1..Len(t) : t[i] = ":"
    THEN LET i == CHOOSE k \in 1..Len(t) :
                      t[k] = ":" /\ \A j \in 1..(k - 1) : t[j] # ":"
         IN  <<SubSeq(t, 1, i - 1)>> \o SplitColon(SubSeq(t, i + 1, Len(t)))
    ELSE <<t>>

\* the fallback for a text that contains T: the text up to the first T,
\* and the first three pieces of the rest split at colons, "00" added
\* while there are fewer than three
EnsureSeconds(raw) ==
    LET i == CHOOSE k \in 1..Len(raw) :
                 raw[k] = "T" /\ \A j \in 1..(k - 1) : raw[j] # "T"
        date_part == SubSeq(raw, 1, i - 1)
        bits == SplitColon(SubSeq(raw, i + 1, Len(raw)))
        bit(k) == IF k <= Len(bits) THEN bits[k] ELSE <<"00">>
    IN  date_part \o <<"T">> \o bit(1) \o <<":">> \o bit(2) \o <<":">> \o bit(3)

\* the outcome of _normalize_datetime: the text returned, or (ok FALSE) the
\* ValueError raised and the value its message names
Normalized(ok, text, named) == [ok |-> ok, text |-> text, named |-> named]

NotNormalized == Normalized(FALSE, <<>>, <<>>)

\* _normalize_datetime
NormalizeDatetime(value) ==
    IF value.type = "datetime"
    THEN Normalized(TRUE, IsoFormat([value.dt EXCEPT !.microsecond = 0]), <<>>)
    ELSE IF value.type = "date"
    THEN Normalized(TRUE, IsoFormat(ReplaceTime(value.dt)), <<>>)
    ELSE LET raw  == StripText(value.repr)
             hits == {i \in 1..Len(Patterns) : Strptime(raw, Patterns[i].fmt).ok}
         IN  IF hits # {}
             THEN LET i == CHOOSE k \in hits : \A j \in hits : k <= j
                      parsed == Strptime(raw, Patterns[i].fmt).value
                  IN  Normalized(TRUE,
                                 IsoFormat(IF Patterns[i].add_time
                                           THEN ReplaceTime(parsed)
                                           ELSE parsed),
                                 <<>>)
             ELSE IF \E k \in 1..Len(raw) : raw[k] = "T"
             THEN Normalized(TRUE, EnsureSeconds(raw), <<>>)
             ELSE Normalized(FALSE, <<>>, value.repr)

\* the sample datetime texts: ISO and dotted dates with and without a time
DateYears  == {"2024"}
DateMonths == {"01", "1", "02", "13"}
DateDays   == {"15", "30", "5"}
TimesAfter(sep) ==
    {<<>>}
    \cup {<<sep, h, ":", "30">> : h \in {"10", "00"}}
    \cup {<<sep, h, ":", "30", ":", s>> : h \in {"10", "00"}, s \in {"45", "61"}}

DateTexts ==
    {<<y, "-", mo, "-", d>> \o t :
        y \in DateYears, mo \in DateMonths, d \in DateDays, t \in TimesAfter("T")}
    \cup {<<d, ".", mo, ".", y>> \o t :
        y \in DateYears, mo \in DateMonths, d \in DateDays, t \in TimesAfter(" ")}
    \cup {<<>>, <<"x">>, <<"x", "T", "y">>,
          <<" ", "2024", "-", "01", "-", "15", " ">>,
          <<"2024", "-", "01", "-", "15", "T", "10", ":", "30", ":", "45",
            "+", "03", ":", "00">>,
          <<"2024", "-", "01", "-", "15", "T", "10", ":", "30", ":", "45",
            " ", ":", "00">>}

\* the sample native values: a date, naive and aware datetimes
NativeDates ==
    {PyValue("date", <<>>, DateTime(2024, 1, 15, 0, 0, 0, 0, <<>>))}
    \cup {PyValue("datetime", <<>>, DateTime(2024, 1, 15, 10, 30, 45, us, tz)) :
            us \in {0, 5}, tz \in {<<>>, <<"+", "03", ":", "00">>}}

DateValues == {StrValue(t) : t \in DateTexts} \cup NativeDates

\* A call of _normalize_datetime.
NormalizeDatetimeCall ==
    /\ call = "_normalize_datetime"
    /\ dt_pc = "call"
    /\ dt_result' = NormalizeDatetime(dt_value)
    /\ dt_pc' = IF dt_result'.ok THEN "returned" ELSE "raised"
    /\ UNCHANGED <<dt_value, dt_again>>
    /\ UNCHANGED <<call, tenacity, llmVars, odVars, qVars, ppVars, fbVars,
                   ubVars, moreVars>>

\* The text returned is handed to _normalize_datetime once more.
NormalizeDatetimeAgain ==
    /\ call = "_normalize_datetime"
    /\ dt_pc = "returned"
    /\ dt_again' = NormalizeDatetime(StrValue(dt_result.text))
    /\ dt_pc' = "done"
    /\ UNCHANGED <<dt_value, dt_result>>
    /\ UNCHANGED <<call, tenacity, llmVars, odVars, qVars, ppVars, fbVars,
                   ubVars, moreVars>>

----------------------------------------------------------------------------
(* odata_tool/filter_builder.py: ODataFilterBuilder.build.                 *)

\* the members a group of the sample has at most
MaxMembers == 2

\* a FilterCondition and a FilterGroup
Condition(field, operator, value, value_type) ==
    [kind |-> "condition", field |-> field, operator |-> operator,
     value |-> value, value_type |-> value_type]

Group(logic, conditions) ==
    [kind |-> "group", logic |-> logic, conditions |-> conditions]

\* the outcome of rendering: the text, or (ok FALSE) the ValueError raised
Rendered(ok, text) == [ok |-> ok, text |-> text]

\* a replacement that leaves the quotes as they are
EscapeQuotesNone(t) == t

RECURSIVE EscapeQuotes(_)
\* str.replace("'", "''")
EscapeQuotes(t) ==
    IF t = <<>> THEN <<>>
    ELSE (IF t[1] = "'" THEN <<"'", "'">> ELSE <<t[1]>>) \o EscapeQuotes(Tail(t))

\* bool(value)
Truthy(value) ==
    CASE value.type = "str" -> value.repr # <<>>
      [] value.type = "int" -> value.repr # <<"0">>
      [] value.type = "bool" -> value.repr = <<"True">>
      [] value.type = "NoneType" -> FALSE
      [] OTHER -> TRUE

\* _format_value
FormatValue(value, value_type) ==
    CASE value_type = "string" ->
            Rendered(TRUE, <<"'">> \o EscapeQuotes(value.repr) \o <<"'">>)
      [] value_type = "datetime" ->
            LET normalized == NormalizeDatetime(value)
            IN  IF normalized.ok
                THEN Rendered(TRUE, <<"datetime", "'">> \o normalized.text \o <<"'">>)
                ELSE Rendered(FALSE, <<>>)
      [] value_type = "guid" ->
            Rendered(TRUE, <<"guid", "'">> \o value.repr \o <<"'">>)
      [] value_type = "boolean" ->
            Rendered(TRUE, IF Truthy(value) THEN <<"true">> ELSE <<"false">>)
      [] OTHER -> Rendered(TRUE, value.repr)

\* _render_condition
RenderCondition(cond) ==
    LET value == FormatValue(cond.value, cond.value_type)
    IN  IF value.ok
        THEN Rendered(TRUE, cond.field \o <<" ", cond.operator, " ">> \o value.text)
        ELSE value

\* p.startswith("(") and p.endswith(")")
IsWrapped(p) == p # <<>> /\ p[1] = "(" /\ p[Len(p)] = ")"

\* the element of `wrapped` for a part
Wrap(p) == IF IsWrapped(p) THEN p ELSE <<"(">> \o p \o <<")">>

RECURSIVE JoinParts(_, _)
\* separator.join(parts)
JoinParts(parts, separator) ==
    IF parts = <<>> THEN <<>>
    ELSE IF Len(parts) = 1 THEN parts[1]
    ELSE parts[1] \o separator \o JoinParts(Tail(parts), separator)

\* _build_group once each member is rendered (each[i] is the rendering of
\* members[i]): ok is FALSE when rendering a member raised.  `parts` holds
\* the rendering of each condition and, in parentheses, that of each nested
\* group that is not empty (no condition renders as the empty text).
JoinGroup(logic, members, each) ==
    LET part(i) == IF members[i].kind = "group" /\ each[i].text # <<>>
                   THEN <<"(">> \o each[i].text \o <<")">>
                   ELSE each[i].text
        parts == SelectSeq([i \in 1..Len(members) |-> part(i)],
                           LAMBDA p : p # <<>>)
    IN  IF \E i \in 1..Len(members) : ~each[i].ok THEN Rendered(FALSE, <<>>)
        ELSE IF parts = <<>> THEN Rendered(TRUE, <<>>)
        ELSE IF Len(parts) = 1 THEN Rendered(TRUE, parts[1])
        ELSE Rendered(TRUE,
                      JoinParts([i \in 1..Len(parts) |-> Wrap(parts[i])],
                                <<" ", logic, " ">>))

RECURSIVE BuildGroup(_)
\* _build_group
BuildGroup(group) ==
    JoinGroup(group.logic, group.conditions,
              [i \in 1..Len(group.conditions) |->
                  IF group.conditions[i].kind = "group"
                  THEN BuildGroup(group.conditions[i])
                  ELSE RenderCondition(group.conditions[i])])

\* no filter group: the argument None
NoGroup == Group("and", <<>>)

\* ODataFilterBuilder.build
FilterBuild(group) ==
    IF group.conditions = <<>> THEN Rendered(TRUE, <<>>) ELSE BuildGroup(group)

\* the values of the sample conditions
IntValue(t) == PyValue("int", t, NoDateTime)
BoolValue(t) == PyValue("bool", t, NoDateTime)

\* the sample string values: It's, a single quote, two quotes, a, empty
StringTexts == {<<"It", "'", "s">>, <<"'">>, <<"'", "'">>, <<"a">>, <<>>}

\* the sample conditions: Status eq 1, Name eq <string>, Active eq true,
\* Date lt <datetime text>, and a condition whose field opens a parenthesis
\* that its value closes: (a eq 1)
C_STATUS == Condition(<<"Status">>, "eq", IntValue(<<"1">>), "number")
C_ACTIVE == Condition(<<"Active">>, "eq", BoolValue(<<"True">>), "boolean")
C_NAME   == Condition(<<"Name">>, "eq", StrValue(<<"It", "'", "s">>), "string")
C_PAREN  == Condition(<<"(", "a">>, "eq", StrValue(<<"1", ")">>), "number")
C_DATE   == Condition(<<"Date">>, "lt", StrValue(<<"2024", "-", "01", "-", "15">>),
                      "datetime")
C_BADDATE == Condition(<<"Date">>, "lt", StrValue(<<"x">>), "datetime")

StringConditions ==
    {Condition(<<"Name">>, "eq", StrValue(t), "string") : t \in StringTexts}

Logics == {"and", "or"}

\* all sequences over S of a length from lo to hi
SeqsOf(S, lo, hi) == UNION {[1..n -> S] : n \in lo..hi}

\* the sample groups: nested groups of plain conditions, and groups of
\* conditions and nested groups
InnerGroups ==
    {Group(l, cs) : l \in Logics, cs \in SeqsOf({C_STATUS, C_ACTIVE}, 0, MaxMembers)}

FilterGroups ==
    {Group(l, ms) :
        l \in Logics,
        ms \in SeqsOf({C_STATUS, C_NAME, C_PAREN, C_BADDATE} \cup InnerGroups,
                      1, MaxMembers)}
    \cup {Group("and", <<c>>) : c \in StringConditions \cup {C_DATE}}
    \cup {NoGroup}

\* A call of ODataFilterBuilder.build.
BuildFilter ==
    /\ call = "ODataFilterBuilder.build"
    /\ fb_pc = "call"
    /\ fb_result' = FilterBuild(fb_group)
    /\ fb_pc' = IF fb_result'.ok THEN "returned" ELSE "raised"
    /\ UNCHANGED fb_group
    /\ UNCHANGED <<call, tenacity, llmVars, odVars, qVars, ppVars, dtVars,
                   ubVars, moreVars>>

----------------------------------------------------------------------------
(* odata_tool/url_builder.py: ODataUrlBuilder.build on the text of the     *)
(* URL.  A percent escape %XX is the symbol "%" followed by the symbol of  *)
(* its two hexadecimal digits; a word of letters is one symbol.            *)

\* the trailing slashes a sample base URL has at most
MaxSlashes == 2

\* the characters urllib.parse.quote never escapes: letters, digits, _.-~
\* (every symbol of the sample texts that is not listed here as reserved)
AlwaysSafe(c) ==
    c \notin {" ", "\n", "'", "%", "/", "(", ")", "$", ",", ":", "=", "+",
              "<", ">", "\\", "U+044F"}

\* the percent escape of a character (of its UTF-8 bytes)
PercentEscape(c) ==
    CASE c = " " -> <<"%", "20">>
      [] c = "\n" -> <<"%", "0A">>
      [] c = "'" -> <<"%", "27">>
      [] c = "%" -> <<"%", "25">>
      [] c = "/" -> <<"%", "2F">>
      [] c = "(" -> <<"%", "28">>
      [] c = ")" -> <<"%", "29">>
      [] c = "$" -> <<"%", "24">>
      [] c = "," -> <<"%", "2C">>
      [] c = ":" -> <<"%", "3A">>
      [] c = "=" -> <<"%", "3D">>
      [] c = "+" -> <<"%", "2B">>
      [] c = "<" -> <<"%", "3C">>
      [] c = ">" -> <<"%", "3E">>
      [] c = "\\" -> <<"%", "5C">>
      [] c = "U+044F" -> <<"%", "D1", "%", "8F">>

RECURSIVE Quote(_, _)
\* urllib.parse.quote(t, safe=safe)
Quote(t, safe) ==
    IF t = <<>> THEN <<>>
    ELSE (IF AlwaysSafe(t[1]) \/ t[1] \in safe THEN <<t[1]>>
          ELSE PercentEscape(t[1])) \o Quote(Tail(t), safe)

\* SAFE_CHARS, and the safe sets of the entity, of a value, of a key
SAFE_CHARS == {"$", "'", "(", ")", ",", "=", "<", ">", ":", "+", "-"}
EntitySafe == {"$", "(", ")", "_", "-", "~", "."}
ValueSafe  == {"$", ",", ":", "'"}

\* _encode_filter
EncodeFilter(filter_str) == Quote(filter_str, SAFE_CHARS)

RECURSIVE RStripSlash(_)
\* str.rstrip("/")
RStripSlash(t) ==
    IF t # <<>> /\ t[Len(t)] = "/" THEN RStripSlash(SubSeq(t, 1, Len(t) - 1))
    ELSE t

\* str.endswith
EndsWith(t, suffix) ==
    /\ Len(t) >= Len(suffix)
    /\ SubSeq(t, Len(t) - Len(suffix) + 1, Len(t)) = suffix

ODATA    == <<"/", "odata">>
STANDARD == <<"/", "standard.odata">>

\* a normalization that tests the suffix of the base as it was given
NormalizedBaseAsGiven(url_base) ==
    IF EndsWith(LowerText(url_base), ODATA \o STANDARD) THEN url_base
    ELSE IF EndsWith(LowerText(url_base), ODATA) THEN url_base \o STANDARD
    ELSE url_base \o ODATA \o STANDARD

\* normalized_base of build
NormalizedBase(url_base) ==
    LET base  == RStripSlash(url_base)
        lower == LowerText(base)
    IN  IF EndsWith(lower, ODATA \o STANDARD) THEN base
        ELSE IF EndsWith(lower, ODATA) THEN base \o STANDARD
        ELSE base \o ODATA \o STANDARD

\* a built URL: the part before "?" and the query parameters after it
Url(root, query) == [root |-> root, query |-> query]

\* ODataUrlBuilder.build on texts: ok is FALSE when it raises
\* ODataClientError.  A parameter value <<>> is None or "".  The sample keys
\* are a "$" followed by letters, which quote(key, safe="$") leaves as is.
BuildUrl(url_base, entity, params) ==
    IF url_base = <<>> \/ entity = <<>>
    THEN [ok |-> FALSE, url |-> Url(<<>>, NoParams)]
    ELSE LET normalized_params ==
                 IF "$format" \in DOMAIN params THEN params
                 ELSE Update(params, [k \in {"$format"} |-> <<"json">>])
             sent == {k \in DOMAIN normalized_params : normalized_params[k] # <<>>}
             root == NormalizedBase(url_base) \o <<"/">>
                     \o Quote(NormalizeEntityName(entity), EntitySafe)
         IN  [ok |-> TRUE,
              url |-> Url(root,
                          [k \in sent |->
                              IF k = "$filter"
                              THEN EncodeFilter(normalized_params[k])
                              ELSE Quote(normalized_params[k], ValueSafe)])]

\* the sample base URLs: a service address, one of the suffixes, slashes
SERVICE == <<"https://example">>
BaseSuffixes ==
    {<<>>, ODATA, <<"/", "OData">>, ODATA \o STANDARD,
     <<"/", "odata", "/", "Standard.OData">>, <<"/", "x">>}
Slashes(n) == [i \in 1..n |-> "/"]
BaseUrls ==
    {SERVICE \o suf \o Slashes(n) : suf \in BaseSuffixes, n \in 0..MaxSlashes}
    \cup {<<>>, <<"/">>}

\* the sample entities; U+044F is a Cyrillic letter
E_CYR == <<"Catalog", "_", "U+044F">>
UrlEntities == {E_ITEMS, E_SALE, E_LF, E_CYR, NoText}

\* the sample filters: Name eq '<U+044F>', and Name%20eq%201
F_PLAIN   == <<"Name", " ", "eq", " ", "'", "U+044F", "'">>
F_ENCODED == <<"Name", "%", "20", "eq", "%", "20", "1">>

\* the sample parameter maps: each key absent or with one of its values
UrlParamValues(k) ==
    CASE k = "$format" -> {<<>>, <<"json">>, <<"xml">>}
      [] k = "$filter" -> {F_PLAIN, F_ENCODED}
      [] k = "$top" -> {<<"1">>}
UrlParams ==
    UNION {{ps \in [ks -> UNION {UrlParamValues(k) : k \in ks}] :
                \A k \in ks : ps[k] \in UrlParamValues(k)} :
           ks \in SUBSET {"$format", "$filter", "$top"}}

\* A call of ODataUrlBuilder.build.
BuildUrlCall ==
    /\ call = "ODataUrlBuilder.build"
    /\ ub_pc = "call"
    /\ ub_result' = BuildUrl(ub_args.base_url, ub_args.entity, ub_args.params)
    /\ ub_pc' = IF ub_result'.ok THEN "returned" ELSE "raised"
    /\ UNCHANGED ub_args
    /\ UNCHANGED <<call, tenacity, llmVars, odVars, qVars, ppVars, dtVars,
                   fbVars, moreVars>>

----------------------------------------------------------------------------
(* odata_tool/url_builder.py: normalize_entity_name called on its own.     *)

\* underscores between the type word and the rest of a name: 0 .. MaxUnderscores
MaxUnderscores == 2

\* n underscores
Underscores(n) == [i \in 1..n |-> "_"]

\* the type words of the sample names: a known prefix as written in the
\* code, in lower and in upper case, and a word that is no prefix
TypeWords == {<<"Catalog">>, <<"catalog">>, <<"CATALOG">>, <<"Document">>,
              <<"T">>}

\* the sample names: blanks, a type word, underscores, a rest, blanks
EntityNames ==
    {NoText} \cup
    {lead \o word \o Underscores(n) \o rest \o trail :
        lead \in {<<>>, <<" ">>}, word \in TypeWords, n \in 0..MaxUnderscores,
        rest \in {<<>>, <<"s">>, <<"s", "_", "w">>},
        trail \in {<<>>, <<" ">>, <<"\n">>}}

\* A call of normalize_entity_name.
NormalizeEntityNameCall ==
    /\ call = "normalize_entity_name"
    /\ ne_pc = "call"
    /\ ne_result' = NormalizeEntityName(ne_entity)
    /\ ne_pc' = "returned"
    /\ UNCHANGED <<ne_entity, ne_again>>
    /\ UNCHANGED <<call, tenacity, llmVars, odVars, qVars, ppVars, fbVars,
                   dtVars, ubVars, pvVars, trVars, mgVars>>

\* The name returned is handed to normalize_entity_name once more.
NormalizeEntityNameAgain ==
    /\ call = "normalize_entity_name"
    /\ ne_pc = "returned"
    /\ ne_again' = NormalizeEntityName(ne_result)
    /\ ne_pc' = "done"
    /\ UNCHANGED <<ne_entity, ne_result>>
    /\ UNCHANGED <<call, tenacity, llmVars, odVars, qVars, ppVars, fbVars,
                   dtVars, ubVars, pvVars, trVars, mgVars>>

----------------------------------------------------------------------------
(* odata_tool/plan_validator.py: PlanValidator.  A field name is a text.   *)

\* the structured QueryPlan with every component; filter_group None is the
\* group without conditions, top None is 0, orderby holds <<field,
\* direction>> pairs
QueryPlan(entity, filter_group, select, orderby, top, expand) ==
    [entity |-> entity, filter_group |-> filter_group, select |-> select,
     orderby |-> orderby, top |-> top, expand |-> expand]

NoQueryPlan == QueryPlan(NoText, NoGroup, <<>>, <<>>, 0, <<>>)

\* one record of the metadata: its type word, its name, its field names
Item(type, name, fields) == [type |-> type, name |-> name, fields |-> fields]

\* f"{item.get('type')}_{item.get('name')}"
EntityOf(item) == <<item.type, "_">> \o item.name

\* PlanValidator.__init__: self.entities
Entities(metadata) == {EntityOf(metadata[i]) : i \in DOMAIN metadata}

\* self.fields_by_entity.get(entity, set()): _build_fields_index keeps the
\* fields of the last record of an entity
FieldsByEntity(metadata, entity) ==
    LET at == {i \in DOMAIN metadata : EntityOf(metadata[i]) = entity}
    IN  IF at = {} THEN {}
        ELSE LET last == CHOOSE i \in at : \A j \in at : j <= i
             IN  {metadata[last].fields[k] : k \in DOMAIN metadata[last].fields}

\* one message of validate: which component it is about, and the name
Error(where, name) == [where |-> where, name |-> name]

\* the test every field check makes, without its "valid_fields and"
UnknownFieldUnguarded(field, valid_fields) == field \notin valid_fields

\* valid_fields and field not in valid_fields
UnknownField(field, valid_fields) ==
    valid_fields # {} /\ field \notin valid_fields

\* list.extend over a sequence of lists
Concat(lists) == JoinParts(lists, <<>>)

RECURSIVE CheckFields(_, _)
\* _check_fields
CheckFields(group, valid_fields) ==
    Concat([i \in 1..Len(group.conditions) |->
               IF group.conditions[i].kind = "group"
               THEN CheckFields(group.conditions[i], valid_fields)
               ELSE IF UnknownField(group.conditions[i].field, valid_fields)
                    THEN <<Error("filter", group.conditions[i].field)>>
                    ELSE <<>>])

\* validate
Validate(metadata, p) ==
    LET valid_fields == FieldsByEntity(metadata, p.entity)
    IN  (IF p.entity \notin Entities(metadata)
         THEN <<Error("entity", p.entity)>> ELSE <<>>)
        \o CheckFields(p.filter_group, valid_fields)
        \o Concat([i \in 1..Len(p.select) |->
                      IF UnknownField(p.select[i], valid_fields)
                      THEN <<Error("select", p.select[i])>> ELSE <<>>])
        \o Concat([i \in 1..Len(p.orderby) |->
                      IF UnknownField(p.orderby[i][1], valid_fields)
                      THEN <<Error("orderby", p.orderby[i][1])>> ELSE <<>>])

\* thefuzz utils.full_process(s, force_ascii=True), which WRatio applies to
\* both texts: characters outside ASCII are removed, the rest is lowered
Processed(name) ==
    CASE name = <<"Code">> -> <<"code">>
      [] name = <<"Name">> -> <<"name">>
      [] name = <<"Nme">> -> <<"nme">>
      [] name = <<"U+044F">> -> <<>>
      [] OTHER -> name

\* fuzz.WRatio on the sample names: 0 when a processed text is empty, 100
\* for equal processed texts, else the similarity ratio of the two
WRatio(s1, s2) ==
    LET p1 == Processed(s1)
        p2 == Processed(s2)
    IN  CASE p1 = <<>> \/ p2 = <<>> -> 0
          [] p1 = p2 -> 100
          [] {p1, p2} = {<<"nme">>, <<"name">>} -> 86
          [] {p1, p2} = {<<"nme">>, <<"code">>} -> 29
          [] OTHER -> 25

\* process.extractOne(query, choices, scorer=fuzz.WRatio): <<>> is None,
\* else the first choice of the highest score
ExtractOne(query, choices) ==
    IF choices = <<>> THEN <<>>
    ELSE LET best == CHOOSE i \in DOMAIN choices :
                        /\ \A j \in DOMAIN choices :
                              WRatio(query, choices[j]) <= WRatio(query, choices[i])
                        /\ \A j \in 1..(i - 1) :
                              WRatio(query, choices[j]) < WRatio(query, choices[i])
         IN  <<choices[best]>>

\* _fix_field when the matcher finds nothing
FixFieldKeep(name, choices) == name

\* _fix_field; choices is list(valid_fields)
FixField(name, choices) ==
    LET best == ExtractOne(name, choices)
    IN  IF best # <<>> THEN best[1] ELSE name

\* a fix of a condition that also sets its value_type
FixConditionRetype(cond, choices) ==
    [cond EXCEPT !.field = FixField(cond.field, choices),
                 !.value_type = "string"]

\* cond.field = fixer(cond.field)
FixCondition(cond, choices) ==
    [cond EXCEPT !.field = FixField(cond.field, choices)]

RECURSIVE FixGroup(_, _)
\* _fix_group
FixGroup(group, choices) ==
    Group(group.logic,
          [i \in 1..Len(group.conditions) |->
              IF group.conditions[i].kind = "group"
              THEN FixGroup(group.conditions[i], choices)
              ELSE FixCondition(group.conditions[i], choices)])

\* suggest_fixes; choices is list(valid_fields)
SuggestFixes(metadata, p, errors, choices) ==
    LET valid_fields == FieldsByEntity(metadata, p.entity)
    IN  IF errors = <<>> \/ valid_fields = {} THEN p
        ELSE [p EXCEPT
                !.filter_group = FixGroup(p.filter_group, choices),
                !.select = [i \in 1..Len(p.select) |->
                               IF p.select[i] \notin valid_fields
                               THEN FixField(p.select[i], choices)
                               ELSE p.select[i]],
                !.orderby = [i \in 1..Len(p.orderby) |->
                                <<IF p.orderby[i][1] \notin valid_fields
                                  THEN FixField(p.orderby[i][1], choices)
                                  ELSE p.orderby[i][1],
                                  p.orderby[i][2]>>]]

\* list(a set): the elements of the set in any order
ListsOf(S) ==
    {l \in [1..Cardinality(S) -> S] : \A x \in S : \E i \in DOMAIN l : l[i] = x}

\* the sample field names: Code, code, a misspelt Name, a Cyrillic name
F_CODE == <<"Code">>
F_LOW  == <<"code">>
F_NME  == <<"Nme">>
F_CYR  == <<"U+044F">>
FieldNames == {F_CODE, F_LOW, F_NME, F_CYR}

\* the sample metadata: Catalog_s with Code and Name and Document_w without
\* fields; Catalog_s with Code and code; Catalog_s with Code and a Cyrillic
\* name; no record
Metadatas ==
    {<<Item("Catalog", <<"s">>, <<F_CODE, <<"Name">>>>),
       Item("Document", <<"w">>, <<>>)>>,
     <<Item("Catalog", <<"s">>, <<F_CODE, F_LOW>>)>>,
     <<Item("Catalog", <<"s">>, <<F_CODE, F_CYR>>)>>,
     <<>>}

\* the sample conditions and groups of the plans: <field> eq 1
FieldCondition(f) == Condition(f, "eq", IntValue(<<"1">>), "number")

ValidatorGroups ==
    {NoGroup}
    \cup {Group("and", <<FieldCondition(f)>>) : f \in FieldNames}
    \cup {Group("or", <<FieldCondition(f), Group("and", <<FieldCondition(g)>>)>>) :
            f \in FieldNames, g \in FieldNames}

ValidatorPlans ==
    {QueryPlan(e, g, sel, ob, rest[1], rest[2]) :
        e \in {E_ITEMS, E_SALE},
        g \in ValidatorGroups,
        sel \in {<<>>, <<F_CODE>>, <<F_NME>>, <<F_CYR, F_NME>>},
        ob \in {<<>>, <<<<F_LOW, "desc">>>>,
                <<<<F_CODE, "asc">>, <<F_NME, "desc">>>>},
        rest \in {<<0, <<>>>>, <<5, <<<<"Owner">>>>>>}}

\* A call of validate.
ValidateCall ==
    /\ call = "PlanValidator.validate"
    /\ pv_pc = "call"
    /\ pv_errors' = Validate(pv_metadata, pv_plan)
    /\ pv_pc' = "validated"
    /\ UNCHANGED <<pv_metadata, pv_plan, pv_fixed, pv_errors2>>
    /\ UNCHANGED <<call, tenacity, llmVars, odVars, qVars, ppVars, fbVars,
                   dtVars, ubVars, neVars, trVars, mgVars>>

\* suggest_fixes with the errors validate returned.  list(valid_fields)
\* lists the set in the order its hashing gives, one order for the call.
SuggestFixesCall ==
    /\ call = "PlanValidator.validate"
    /\ pv_pc = "validated"
    /\ \E choices \in ListsOf(FieldsByEntity(pv_metadata, pv_plan.entity)) :
          pv_fixed' = SuggestFixes(pv_metadata, pv_plan, pv_errors, choices)
    /\ pv_pc' = "fixed"
    /\ UNCHANGED <<pv_metadata, pv_plan, pv_errors, pv_errors2>>
    /\ UNCHANGED <<call, tenacity, llmVars, odVars, qVars, ppVars, fbVars,
                   dtVars, ubVars, neVars, trVars, mgVars>>

\* validate on the plan that suggest_fixes returned.
ValidateAgain ==
    /\ call = "PlanValidator.validate"
    /\ pv_pc = "fixed"
    /\ pv_errors2' = Validate(pv_metadata, pv_fixed)
    /\ pv_pc' = "done"
    /\ UNCHANGED <<pv_metadata, pv_plan, pv_errors, pv_fixed>>
    /\ UNCHANGED <<call, tenacity, llmVars, odVars, qVars, ppVars, fbVars,
                   dtVars, ubVars, neVars, trVars, mgVars>>

----------------------------------------------------------------------------
(* query_tool.py: the plan translator: _normalize_filter_dates,            *)
(* normalize_params, _structured_to_legacy and the parameters that         *)
(* query_tool.ODataClient.fetch hands to the URL builder.                  *)

\* clauses of a sample filter: 0 .. MaxClauses
MaxClauses == 2
\* items of a sample parameter map: 0 .. MaxItems
MaxItems == 2

\* a text between quotes
Quoted(t) == <<"'">> \o t \o <<"'">>

\* the sample dates: a day, a day with a time, the same with a lower-case t
D_DAY  == <<"2024", "-", "01", "-", "15">>
D_TIME == D_DAY \o <<"T", "10", ":", "30", ":", "45">>
D_LOW  == D_DAY \o <<"t", "10", ":", "30", ":", "45">>

\* a clause of a sample filter: `before` then, for the kinds date and
\* wrapped, the date `raw` between quotes
Clause(kind, before, raw) == [kind |-> kind, before |-> before, raw |-> raw]

\* the text of a clause
ClauseText(c) ==
    IF c.kind \in {"date", "wrapped"} THEN c.before \o Quoted(c.raw)
    ELSE c.before

\* the sample clauses: A eq B; Name eq 'a'; Name eq '2024-1-15' and
\* Name eq '2024-01-15T10:30', which are no date literals of the pass;
\* D ge '<date>'; D lt datetime'<date>' and D lt DateTime'<date>'
Clauses ==
    {Clause("plain", <<"A", " ", "eq", " ", "B">>, <<>>),
     Clause("plain", <<"Name", " ", "eq", " ">> \o Quoted(<<"a">>), <<>>),
     Clause("plain", <<"Name", " ", "eq", " ">>
                        \o Quoted(<<"2024", "-", "1", "-", "15">>), <<>>),
     Clause("plain", <<"Name", " ", "eq", " ">>
                        \o Quoted(D_DAY \o <<"T", "10", ":", "30">>), <<>>)}
    \cup {Clause("date", <<"D", " ", "ge", " ">>, d) : d \in {D_DAY, D_TIME, D_LOW}}
    \cup {Clause("wrapped", <<"D", " ", "lt", " ", w>>, D_TIME) :
            w \in {"datetime", "DateTime"}}

\* the filter made of clauses joined by and
FilterText(clauses) ==
    JoinParts([i \in 1..Len(clauses) |-> ClauseText(clauses[i])],
              <<" ", "and", " ">>)

\* A call of _normalize_filter_dates.
NormalizeFilterDatesCall ==
    /\ call = "_normalize_filter_dates"
    /\ nf_pc = "call"
    /\ nf_result' = NormalizeFilterDates(nf_filter)
    /\ nf_pc' = "returned"
    /\ UNCHANGED <<nf_segments, nf_filter, nf_again>>
    /\ UNCHANGED <<np_items, np_pc, np_result, sl_plan, sl_pc, sl_legacy, sl_sent>>
    /\ UNCHANGED <<call, tenacity, llmVars, odVars, qVars, ppVars, fbVars,
                   dtVars, ubVars, neVars, pvVars, mgVars>>

\* The text returned is handed to _normalize_filter_dates once more.
NormalizeFilterDatesAgain ==
    /\ call = "_normalize_filter_dates"
    /\ nf_pc = "returned"
    /\ nf_again' = NormalizeFilterDates(nf_result)
    /\ nf_pc' = "done"
    /\ UNCHANGED <<nf_segments, nf_filter, nf_result>>
    /\ UNCHANGED <<np_items, np_pc, np_result, sl_plan, sl_pc, sl_legacy, sl_sent>>
    /\ UNCHANGED <<call, tenacity, llmVars, odVars, qVars, ppVars, fbVars,
                   dtVars, ubVars, neVars, pvVars, mgVars>>

\* the sample items of a raw parameter map: recognized keys bare, in
\* capitals, between blanks and with their $; an unknown key; a blank key;
\* empty values
ItemPool ==
    {<<"filter", <<"A", " ", "eq", " ", "B">>>>,
     <<"Filter", <<"D", " ", "ge", " ">> \o Quoted(D_DAY)>>,
     <<" filter ", <<>>>>,
     <<"top", <<10>>>>,
     <<" top ", <<7>>>>,
     <<"$top", <<5>>>>,
     <<"Select", <<"Code">>>>,
     <<"Format", <<"xml">>>>,
     <<"format", <<>>>>,
     <<"$format", <<"atom">>>>,
     <<"OrderBy", <<"Code", " ", "desc">>>>,
     <<" expand ", <<"Owner">>>>,
     <<"skip", <<3>>>>,
     <<" ", <<"x">>>>}

\* the items of the sample maps: no key twice
RawItems ==
    {items \in SeqsOf(ItemPool, 0, MaxItems) :
        \A i, j \in DOMAIN items : i # j => items[i][1] # items[j][1]}

\* A call of normalize_params.
NormalizeParamsCall ==
    /\ call = "normalize_params"
    /\ np_pc = "call"
    /\ np_result' = NormalizeParamItems(np_items)
    /\ np_pc' = "returned"
    /\ UNCHANGED np_items
    /\ UNCHANGED <<nf_segments, nf_filter, nf_pc, nf_result, nf_again,
                   sl_plan, sl_pc, sl_legacy, sl_sent>>
    /\ UNCHANGED <<call, tenacity, llmVars, odVars, qVars, ppVars, fbVars,
                   dtVars, ubVars, neVars, pvVars, mgVars>>

\* the legacy QueryPlan that _structured_to_legacy returns; ok is FALSE
\* when the call raised
Legacy(ok, entity, params) == [ok |-> ok, entity |-> entity, params |-> params]

NoLegacy == Legacy(FALSE, NoText, NoParams)

\* f"{field} {direction}"
OrderbyTextFieldOnly(pair) == pair[1]

OrderbyText(pair) == pair[1] \o <<" ", pair[2]>>

\* _structured_to_legacy on a plan with every component; the ValueError
\* of the filter builder leaves the function
StructuredPlanToLegacy(p) ==
    LET filter_str == FilterBuild(p.filter_group)
        keys == (IF filter_str.text # <<>> THEN {"$filter"} ELSE {})
                \cup (IF p.select # <<>> THEN {"$select"} ELSE {})
                \cup (IF p.top # 0 THEN {"$top"} ELSE {})
                \cup (IF p.orderby # <<>> THEN {"$orderby"} ELSE {})
                \cup (IF p.expand # <<>> THEN {"$expand"} ELSE {})
    IN  IF ~filter_str.ok THEN NoLegacy
        ELSE Legacy(TRUE, p.entity,
                    [k \in keys |->
                        CASE k = "$filter" -> filter_str.text
                          [] k = "$select" -> JoinParts(p.select, <<",">>)
                          [] k = "$top" -> <<p.top>>
                          [] k = "$orderby" ->
                               JoinParts([i \in 1..Len(p.orderby) |->
                                             OrderbyText(p.orderby[i])], <<",">>)
                          [] k = "$expand" -> JoinParts(p.expand, <<",">>)])

\* the sample filters of the plans: none; Status eq 1; a string that reads
\* as a date; a datetime; both together; a datetime that does not parse
C_DATESTR == Condition(<<"Name">>, "eq", StrValue(D_DAY), "string")

TranslatorGroups ==
    {NoGroup,
     Group("and", <<C_STATUS>>),
     Group("and", <<C_DATESTR>>),
     Group("or", <<C_STATUS, Group("and", <<C_DATESTR, C_NAME>>)>>),
     Group("and", <<C_DATE>>),
     Group("and", <<C_DATESTR, C_DATE>>),
     Group("and", <<C_BADDATE>>)}

TranslatorPlans ==
    {QueryPlan(E_ITEMS, g, sel, ob, top, ex) :
        g \in TranslatorGroups,
        sel \in {<<>>, <<F_CODE>>, <<F_CODE, <<"Name">>>>},
        ob \in {<<>>, <<<<F_CODE, "asc">>>>,
                <<<<F_CODE, "asc">>, <<<<"Name">>, "desc">>>>},
        top \in {0, 5},
        ex \in {<<>>, <<<<"Owner">>>>, <<<<"Owner">>, <<"Parent">>>>}}

\* A call of _structured_to_legacy.
StructuredToLegacyCall ==
    /\ call = "_structured_to_legacy"
    /\ sl_pc = "call"
    /\ sl_legacy' = StructuredPlanToLegacy(sl_plan)
    /\ sl_pc' = IF sl_legacy'.ok THEN "translated" ELSE "raised"
    /\ UNCHANGED <<sl_plan, sl_sent>>
    /\ UNCHANGED <<nf_segments, nf_filter, nf_pc, nf_result, nf_again,
                   np_items, np_pc, np_result>>
    /\ UNCHANGED <<call, tenacity, llmVars, odVars, qVars, ppVars, fbVars,
                   dtVars, ubVars, neVars, pvVars, mgVars>>

\* query_tool.ODataClient.fetch with the plan translated: the parameters it
\* normalizes and hands to the URL builder to be encoded and sent.
LegacyFetchParams ==
    /\ call = "_structured_to_legacy"
    /\ sl_pc = "translated"
    /\ sl_sent' = NormalizeParams(sl_legacy.params)
    /\ sl_pc' = "sent"
    /\ UNCHANGED <<sl_plan, sl_legacy>>
    /\ UNCHANGED <<nf_segments, nf_filter, nf_pc, nf_result, nf_again,
                   np_items, np_pc, np_result>>
    /\ UNCHANGED <<call, tenacity, llmVars, odVars, qVars, ppVars, fbVars,
                   dtVars, ubVars, neVars, pvVars, mgVars>>

----------------------------------------------------------------------------
(* manager.py: OneCManager.get_index called for one connection string (not *)
(* empty) from several worker threads (asyncio.to_thread).  The threads    *)
(* share the cache file, the dump directory and the lock file; a step is   *)
(* what one thread does between two looks at those files.                  *)

\* worker threads: 1 .. MaxThreads
MaxThreads == 2
\* sleeps of the wait for the lock before its timeout: timeout_sec / sleep_step
MaxWaits == 2

Threads == 1..MaxThreads

\* the other variables of the calls of get_index are left alone
GetIndexFrame ==
    UNCHANGED <<call, tenacity, llmVars, odVars, qVars, ppVars, fbVars,
                dtVars, ubVars, neVars, pvVars, trVars>>

\* _dump_ready(dump_dir): the directory holds a marker file or an xml file
DumpReady == mg_dump = "ready"

\* `if cache_file.exists() and not force_update`: the cached index is
\* returned, unless reading it fails (`except Exception: pass`).
GetIndexCache ==
    /\ call = "get_index"
    /\ \E t \in Threads :
          /\ mg_pc[t] = "start"
          /\ \/ /\ mg_cache /\ ~mg_force[t]
                /\ mg_pc' = [mg_pc EXCEPT ![t] = "returned"]
             \/ mg_pc' = [mg_pc EXCEPT ![t] = "check_dump"]
    /\ UNCHANGED <<mg_force, mg_waited, mg_cache, mg_dump, mg_lock>>
    /\ GetIndexFrame

\* `if dump_dir.exists() and self._dump_ready(dump_dir) and not
\* force_update`: the dump is parsed, the cache written, the index returned.
GetIndexDump ==
    /\ call = "get_index"
    /\ \E t \in Threads :
          /\ mg_pc[t] = "check_dump"
          /\ IF DumpReady /\ ~mg_force[t]
             THEN /\ mg_pc' = [mg_pc EXCEPT ![t] = "returned"]
                  /\ mg_cache' = TRUE
             ELSE /\ mg_pc' = [mg_pc EXCEPT ![t] = "check_lock"]
                  /\ UNCHANGED mg_cache
    /\ UNCHANGED <<mg_force, mg_waited, mg_dump, mg_lock>>
    /\ GetIndexFrame

\* `if lock_file.exists() and not force_update`: the call waits for the
\* dump of another; otherwise it goes on to dump.
GetIndexLock ==
    /\ call = "get_index"
    /\ \E t \in Threads :
          /\ mg_pc[t] = "check_lock"
          /\ mg_pc' = [mg_pc EXCEPT ![t] =
                          IF mg_lock /\ ~mg_force[t] THEN "wait" ELSE "touch"]
    /\ UNCHANGED <<mg_force, mg_waited, mg_cache, mg_dump, mg_lock>>
    /\ GetIndexFrame

\* One turn of the wait loop: sleep, then `if self._dump_ready(dump_dir)`;
\* RuntimeError once the time is used up.
GetIndexWait ==
    /\ call = "get_index"
    /\ \E t \in Threads :
          /\ mg_pc[t] = "wait"
          /\ mg_waited[t] < MaxWaits
          /\ mg_waited' = [mg_waited EXCEPT ![t] = @ + 1]
          /\ IF DumpReady
             THEN /\ mg_pc' = [mg_pc EXCEPT ![t] = "returned"]
                  /\ mg_cache' = TRUE
             ELSE /\ mg_pc' = [mg_pc EXCEPT ![t] =
                                  IF mg_waited[t] + 1 < MaxWaits THEN "wait"
                                  ELSE "raised"]
                  /\ UNCHANGED mg_cache
    /\ UNCHANGED <<mg_force, mg_dump, mg_lock>>
    /\ GetIndexFrame

\* dump_dir.mkdir(parents=True, exist_ok=True); lock_file.touch(exist_ok=True)
GetIndexTouch ==
    /\ call = "get_index"
    /\ \E t \in Threads :
          /\ mg_pc[t] = "touch"
          /\ mg_pc' = [mg_pc EXCEPT ![t] = "command"]
    /\ mg_dump' = IF mg_dump = "absent" THEN "empty" ELSE mg_dump
    /\ mg_lock' = TRUE
    /\ UNCHANGED <<mg_force, mg_waited, mg_cache>>
    /\ GetIndexFrame

\* _build_designer_command, which raises FileNotFoundError when the 1C
\* executable is not found (the lock file stays), then subprocess.run
\* starts the dump.
GetIndexRun ==
    /\ call = "get_index"
    /\ \E t \in Threads :
          /\ mg_pc[t] = "command"
          /\ \E found \in BOOLEAN :
                mg_pc' = [mg_pc EXCEPT ![t] = IF found THEN "dumping" ELSE "raised"]
    /\ UNCHANGED <<mg_force, mg_waited, mg_cache, mg_dump, mg_lock>>
    /\ GetIndexFrame

\* The dump subprocess of a call writes its first files into the dump
\* directory.
DumpWrites ==
    /\ call = "get_index"
    /\ \E t \in Threads : mg_pc[t] = "dumping"
    /\ mg_dump # "ready"
    /\ mg_dump' = "ready"
    /\ UNCHANGED <<mg_pc, mg_force, mg_waited, mg_cache, mg_lock>>
    /\ GetIndexFrame

\* subprocess.run ends: with exit code 0 (the dump is written; it is
\* parsed, the lock removed, the cache written), or with FileNotFoundError,
\* TimeoutExpired or another exit code (the lock is removed, the call
\* raises).
GetIndexRunEnd ==
    /\ call = "get_index"
    /\ \E t \in Threads :
          /\ mg_pc[t] = "dumping"
          /\ \E ok \in BOOLEAN :
                IF ok
                THEN /\ mg_pc' = [mg_pc EXCEPT ![t] = "returned"]
                     /\ mg_dump' = "ready"
                     /\ mg_cache' = TRUE
                ELSE /\ mg_pc' = [mg_pc EXCEPT ![t] = "raised"]
                     /\ UNCHANGED <<mg_dump, mg_cache>>
    /\ mg_lock' = FALSE
    /\ UNCHANGED <<mg_force, mg_waited>>
    /\ GetIndexFrame

----------------------------------------------------------------------------
(* The specification.                                                      *)

Calls == {"generate_plan", "fetch", "parse_plan", "query_1c_data",
          "ODataFilterBuilder.build", "_normalize_datetime",
          "ODataUrlBuilder.build", "normalize_entity_name",
          "PlanValidator.validate", "_normalize_filter_dates",
          "normalize_params", "_structured_to_legacy", "get_index"}

\* the arguments of a direct call of fetch: a structured plan for the
\* decorated client, an entity and a raw parameter map for the legacy one
FetchArgs(c) ==
    IF c = "odata_tool"
    THEN {[entity |-> E_ITEMS, select |-> sel, top |-> top, params |-> NoParams] :
            sel \in {<<>>, <<"Code">>, <<"Code", "Name">>}, top \in {0, 5}}
    ELSE {[entity |-> e, select |-> <<>>, top |-> 0, params |-> ps] :
            e \in {E_ITEMS, NoText},
            ps \in {NoParams, [k \in {"top"} |-> <<5>>],
                    [k \in {"$top", "select"} |->
                        IF k = "$top" THEN <<5>> ELSE <<>>]}}

LLMIdle ==
    /\ api_key = FALSE /\ model_id = FALSE /\ use_structured_output = FALSE
    /\ llm_pc = "idle" /\ llm_attempt = 0 /\ llm_posts = <<>>
    /\ llm_resps = <<>> /\ llm_hist = <<>> /\ llm_result = NoOutcome

ODIdle ==
    /\ client = "query_tool" /\ base_url = FALSE
    /\ od_plan = [entity |-> NoText, select |-> <<>>, top |-> 0, params |-> NoParams]
    /\ od_pc = "idle" /\ od_attempt = 0 /\ od_resps = <<>>
    /\ od_hist = <<>> /\ od_result = NoODOutcome

QIdle ==
    /\ pc = "idle" /\ user_query = <<>> /\ env = {}
    /\ explicit_entity = NotFound /\ fuzzy = <<>> /\ candidates = <<>>
    /\ plan = NoLegacyPlan /\ steps = <<>> /\ tool_result = NoToolOutcome

PPIdle == parse_text = "" /\ parse_result = NoOutcome

FBIdle == fb_group = NoGroup /\ fb_pc = "idle" /\ fb_result = Rendered(FALSE, <<>>)

DTIdle ==
    /\ dt_value = StrValue(<<>>) /\ dt_pc = "idle"
    /\ dt_result = NotNormalized /\ dt_again = NotNormalized

NoUrlArgs == [base_url |-> <<>>, entity |-> NoText, params |-> NoParams]

UBIdle ==
    /\ ub_args = NoUrlArgs /\ ub_pc = "idle"
    /\ ub_result = [ok |-> FALSE, url |-> Url(<<>>, NoParams)]

NEIdle ==
    /\ ne_entity = NoText /\ ne_pc = "idle" /\ ne_result = NoText
    /\ ne_again = NoText

PVIdle ==
    /\ pv_metadata = <<>> /\ pv_plan = NoQueryPlan /\ pv_pc = "idle"
    /\ pv_errors = <<>> /\ pv_fixed = NoQueryPlan /\ pv_errors2 = <<>>

NFIdle ==
    /\ nf_segments = <<>> /\ nf_filter = NoText /\ nf_pc = "idle"
    /\ nf_result = NoText /\ nf_again = NoText

NPIdle == np_items = <<>> /\ np_pc = "idle" /\ np_result = NoParams

SLIdle ==
    /\ sl_plan = NoQueryPlan /\ sl_pc = "idle" /\ sl_legacy = NoLegacy
    /\ sl_sent = NoParams

TRIdle == NFIdle /\ NPIdle /\ SLIdle

MGIdle ==
    /\ mg_pc = [t \in Threads |-> "idle"]
    /\ mg_force = [t \in Threads |-> FALSE]
    /\ mg_waited = [t \in Threads |-> 0]
    /\ mg_cache = FALSE /\ mg_dump = "absent" /\ mg_lock = FALSE

\* the components of the first seven entry points are idle
CoreIdle ==
    LLMIdle /\ ODIdle /\ QIdle /\ PPIdle /\ FBIdle /\ DTIdle /\ UBIdle

\* the components of the other entry points are idle
MoreIdle == NEIdle /\ PVIdle /\ TRIdle /\ MGIdle

Init ==
    /\ call \in Calls
    /\ tenacity \in BOOLEAN
    /\ \/ /\ call = "generate_plan"
          /\ api_key \in BOOLEAN /\ model_id \in BOOLEAN
          /\ use_structured_output \in BOOLEAN
          /\ llm_pc = "call" /\ llm_attempt = 0 /\ llm_posts = <<>>
          /\ llm_resps = <<>> /\ llm_hist = <<>> /\ llm_result = NoOutcome
          /\ ODIdle /\ QIdle /\ PPIdle /\ FBIdle /\ DTIdle /\ UBIdle
          /\ MoreIdle
       \/ /\ call = "fetch"
          /\ client \in Clients /\ base_url \in BOOLEAN
          /\ od_plan \in FetchArgs(client)
          /\ od_pc = "call" /\ od_attempt = 0 /\ od_resps = <<>>
          /\ od_hist = <<>> /\ od_result = NoODOutcome
          /\ LLMIdle /\ QIdle /\ PPIdle /\ FBIdle /\ DTIdle /\ UBIdle
          /\ MoreIdle
       \/ /\ call = "parse_plan"
          /\ parse_text \in Texts /\ parse_result = NoOutcome
          /\ LLMIdle /\ ODIdle /\ QIdle /\ FBIdle /\ DTIdle /\ UBIdle
          /\ MoreIdle
       \/ /\ call = "query_1c_data"
          /\ pc = "start" /\ user_query \in Queries /\ env \in SUBSET EnvVars
          /\ explicit_entity = NotFound /\ fuzzy = <<>> /\ candidates = <<>>
          /\ plan = NoLegacyPlan /\ steps = <<>> /\ tool_result = NoToolOutcome
          /\ LLMIdle /\ ODIdle /\ PPIdle /\ FBIdle /\ DTIdle /\ UBIdle
          /\ MoreIdle
       \/ /\ call = "ODataFilterBuilder.build"
          /\ fb_group \in FilterGroups /\ fb_pc = "call"
          /\ fb_result = Rendered(FALSE, <<>>)
          /\ LLMIdle /\ ODIdle /\ QIdle /\ PPIdle /\ DTIdle /\ UBIdle
          /\ MoreIdle
       \/ /\ call = "_normalize_datetime"
          /\ dt_value \in DateValues /\ dt_pc = "call"
          /\ dt_result = NotNormalized /\ dt_again = NotNormalized
          /\ LLMIdle /\ ODIdle /\ QIdle /\ PPIdle /\ FBIdle /\ UBIdle
          /\ MoreIdle
       \/ /\ call = "ODataUrlBuilder.build"
          /\ ub_args \in [base_url : BaseUrls, entity : UrlEntities,
                           params : UrlParams]
          /\ ub_pc = "call"
          /\ ub_result = [ok |-> FALSE, url |-> Url(<<>>, NoParams)]
          /\ LLMIdle /\ ODIdle /\ QIdle /\ PPIdle /\ FBIdle /\ DTIdle
          /\ MoreIdle
       \/ /\ call = "normalize_entity_name"
          /\ ne_entity \in EntityNames /\ ne_pc = "call"
          /\ ne_result = NoText /\ ne_again = NoText
          /\ CoreIdle /\ PVIdle /\ TRIdle /\ MGIdle
       \/ /\ call = "PlanValidator.validate"
          /\ pv_metadata \in Metadatas /\ pv_plan \in ValidatorPlans
          /\ pv_pc = "call" /\ pv_errors = <<>> /\ pv_fixed = NoQueryPlan
          /\ pv_errors2 = <<>>
          /\ CoreIdle /\ NEIdle /\ TRIdle /\ MGIdle
       \/ /\ call = "_normalize_filter_dates"
          /\ nf_segments \in SeqsOf(Clauses, 0, MaxClauses)
          /\ nf_filter = FilterText(nf_segments)
          /\ nf_pc = "call" /\ nf_result = NoText /\ nf_again = NoText
          /\ CoreIdle /\ NEIdle /\ PVIdle /\ NPIdle /\ SLIdle /\ MGIdle
       \/ /\ call = "normalize_params"
          /\ np_items \in RawItems
          /\ np_pc = "call" /\ np_result = NoParams
          /\ CoreIdle /\ NEIdle /\ PVIdle /\ NFIdle /\ SLIdle /\ MGIdle
       \/ /\ call = "_structured_to_legacy"
          /\ sl_plan \in TranslatorPlans
          /\ sl_pc = "call" /\ sl_legacy = NoLegacy /\ sl_sent = NoParams
          /\ CoreIdle /\ NEIdle /\ PVIdle /\ NFIdle /\ NPIdle /\ MGIdle
       \/ /\ call = "get_index"
          /\ mg_pc = [t \in Threads |-> "start"]
          /\ mg_force \in [Threads -> BOOLEAN]
          /\ mg_waited = [t \in Threads |-> 0]
          /\ mg_cache \in BOOLEAN
          /\ mg_dump \in {"absent", "empty", "ready"}
          /\ mg_lock \in BOOLEAN
          /\ CoreIdle /\ NEIdle /\ PVIdle /\ TRIdle

Next ==
    \/ LLMCall \/ LLMPost1 \/ LLMPost2
    \/ ODCall \/ ODGet
    \/ ParsePlanCall
    \/ QStart \/ QIndex \/ QListEntities \/ QMetadataGet \/ QPlan
    \/ QPlanResult \/ QResult
    \/ BuildFilter \/ NormalizeDatetimeCall \/ NormalizeDatetimeAgain
    \/ BuildUrlCall
    \/ NormalizeEntityNameCall \/ NormalizeEntityNameAgain
    \/ ValidateCall \/ SuggestFixesCall \/ ValidateAgain
    \/ NormalizeFilterDatesCall \/ NormalizeFilterDatesAgain
    \/ NormalizeParamsCall
    \/ StructuredToLegacyCall \/ LegacyFetchParams
    \/ GetIndexCache \/ GetIndexDump \/ GetIndexLock \/ GetIndexWait
    \/ GetIndexTouch \/ GetIndexRun \/ DumpWrites \/ GetIndexRunEnd

Spec == Init /\ [][Next]_vars

----------------------------------------------------------------------------
(* The claims.  Those that fail are stated for the service as deployed,    *)
(* with the retry library installed.                                       *)

Last(q) == q[Len(q)]

\* the attempt ended with a connection or timeout failure of the request
TransportCauses == {"transport", "timeout"}

\* C1: when the text-generation request fails with a connection or timeout
\* failure and the retry decorator is in place, the failure reaches the
\* caller of generate_plan only after the third attempt, as a classified
\* LLMClientError.
C1_TransportFailureRetried ==
    (/\ tenacity
     /\ llm_pc = "done"
     /\ llm_hist # <<>>
     /\ Last(llm_hist) \in TransportCauses)
    => /\ llm_attempt = 3
       /\ llm_result.type = "LLMClientError"

\* C2: with the retry library installed, when the GET fails with a
\* connection failure or a timeout, the caller of ODataClient.fetch receives
\* ODataClientError, and from the decorated client only after the third
\* attempt.
C2_FetchTransportClassified ==
    (/\ tenacity
     /\ od_pc = "done"
     /\ od_hist # <<>>
     /\ Last(od_hist) \in TransportCauses)
    => /\ od_result.type = "ODataClientError"
       /\ (client = "odata_tool" => od_attempt = 3)

\* the ways an attempt ends that must never be followed by another attempt:
\* a configuration error, an HTTP status >= 400, a plan-parse error, a
\* plan-validation failure
NeverRetried ==
    {"config", "http_status", "empty", "not_json", "span_not_json", "plan_shape"}

\* C3: a call of generate_plan or of fetch makes at most 3 attempts, and an
\* attempt that ended in a configuration error, an HTTP status >= 400, a
\* plan-parse error or a plan-validation failure is the last one of its call.
C3_AttemptsBounded ==
    /\ llm_attempt <= 3
    /\ od_attempt <= 3
    /\ \A i \in 1..Len(llm_hist) :
          llm_hist[i] \in NeverRetried => i = Len(llm_hist) /\ llm_pc = "done"
    /\ \A i \in 1..Len(od_hist) :
          od_hist[i] \in NeverRetried => i = Len(od_hist) /\ od_pc = "done"

\* a fetch whose first attempt timed out and was retried, and whose second
\* attempt ended the call with an HTTP error status
C3_Witness ==
    /\ od_pc = "done"
    /\ od_attempt = 2
    /\ od_hist = <<"timeout", "http_status">>

\* C4: within one attempt of generate_plan the second POST is sent exactly
\* when JSON mode was requested and the first response had status >= 400;
\* its body is the first body without response_format; there is no third
\* POST; a second response with status >= 400 ends the call with
\* LLMClientError carrying that status.
C4_StructuredFallback ==
    /\ Len(llm_posts) <= 2
    /\ (Len(llm_posts) = 2) <=>
          (/\ llm_resps # <<>>
           /\ llm_resps[1].status >= 400
           /\ use_structured_output)
    /\ Len(llm_posts) = 2 =>
          /\ "response_format" \in llm_posts[1]
          /\ llm_posts[2] = llm_posts[1] \ {"response_format"}
    /\ (Len(llm_resps) = 2 /\ llm_resps[2].status >= 400) =>
          /\ llm_pc = "done"
          /\ llm_result.type = "LLMClientError"
          /\ llm_result.status = llm_resps[2].status

\* an attempt whose two POSTs were both answered with an error status
C4_Witness ==
    /\ Len(llm_posts) = 2
    /\ Len(llm_resps) = 2
    /\ llm_resps[1].status = 400
    /\ llm_resps[2].status = 503
    /\ llm_pc = "done"

\* the assistant text of the response generate_plan kept, if it has one
KeptText ==
    IF /\ llm_resps # <<>>
       /\ Last(llm_resps).status < 400
       /\ Last(llm_resps).decodes
       /\ ExtractLLMText(Last(llm_resps).payload).ok
    THEN Some(ExtractLLMText(Last(llm_resps).payload).text)
    ELSE Absent

\* C5: an assistant text that does not become a plan makes generate_plan
\* fail with PlanParseError carrying the raw text, and makes parse_plan fail
\* with PlanParseError; no other error type.
C5_UnparseableIsPlanParseError ==
    /\ (tenacity /\ llm_pc = "done" /\ KeptText # Absent /\ llm_result.type # "plan")
          => /\ llm_result.type = "PlanParseError"
             /\ llm_result.raw = KeptText
    /\ tenacity => parse_result.type \in {"none", "plan", "PlanParseError"}

\* C6: a failure of query_1c_data that comes from the configuration, from
\* the text-generation call or from the OData call reaches the caller as
\* McpError.
C6_OnlyMcpError ==
    (/\ tenacity
     /\ pc = "done"
     /\ tool_result.type # "ToolResult"
     /\ tool_result.origin \in {"config", "llm", "odata"})
    => tool_result.type = "McpError"

\* C7: a GET answered with status >= 400 makes fetch fail with an
\* ODataClientError carrying the status code, the request URL, the elapsed
\* time and the parameters used, the detail being the parsed body when it
\* parses as JSON and the raw text otherwise; no envelope is returned.
C7_HttpErrorCarriesDetail ==
    (/\ od_pc = "done"
     /\ od_resps # <<>>
     /\ Last(od_resps).status >= 400)
    => /\ od_result.type = "ODataClientError"
       /\ od_result.status_code = Last(od_resps).status
       /\ od_result.elapsed_ms = Last(od_resps).elapsed
       /\ od_result.params = ODParams
       /\ od_result.url = UrlBuild(base_url, od_plan.entity, ODParams).url
       /\ od_result.url # NoUrl
       /\ od_result.response =
            IF Last(od_resps).body = B_HTML
            THEN <<"text", Last(od_resps).body>>
            ELSE <<"json", Last(od_resps).body>>

\* a fetch answered 400 with a body that is not JSON
C7_Witness ==
    /\ od_pc = "done"
    /\ od_resps # <<>>
    /\ Last(od_resps).status = 400
    /\ Last(od_resps).body = B_HTML
    /\ od_result.response = <<"text", B_HTML>>

\* C8: in query_1c_data every call of fetch is preceded by a call of the
\* Plan Validator.
C8_ValidatedBeforeGet ==
    \A i \in 1..Len(steps) :
        (tenacity /\ steps[i] = "ODataClient.fetch")
            => \E j \in 1..(i - 1) : steps[j] = "PlanValidator.validate"

\* C9: query_1c_data never fails because the metadata is unavailable.
C9_MetadataNeverFatal ==
    ~(tenacity /\ pc = "done" /\ tool_result.origin = "metadata")

\* an explicit entity reference at position i with a name of k symbols: a
\* prefix word at a word boundary, an underscore, the name, a word boundary
RefAt(t, i, k) ==
    /\ k >= 1
    /\ i + 1 + k <= Len(t)
    /\ \E pre \in Prefixes : Lower(pre) = Lower(t[i])
    /\ i = 1 \/ ~IsWordSym(t[i - 1])
    /\ t[i + 1] = "_"
    /\ \A j \in (i + 2)..(i + 1 + k) : IsWordSym(t[j])
    /\ i + 1 + k = Len(t) \/ ~IsWordSym(t[i + 2 + k])

HasRef(t) == \E i \in 1..Len(t), k \in 1..Len(t) : RefAt(t, i, k)

\* the first explicit entity reference of a text that has one
FirstRef(t) ==
    LET i == CHOOSE a \in 1..Len(t) :
                /\ \E k \in 1..Len(t) : RefAt(t, a, k)
                /\ \A b \in 1..(a - 1) : ~\E k \in 1..Len(t) : RefAt(t, b, k)
        k == CHOOSE n \in 1..Len(t) : RefAt(t, i, n)
    IN  SubSeq(t, i, i + 1 + k)

\* C10: once the candidates are chosen, a user query with an explicit
\* Prefix_Name reference that is not among the fuzzy candidates has that
\* entity as the first candidate, with score 100.
C10_ExplicitEntityFirst ==
    (/\ tenacity
     /\ pc \in {"plan", "llm", "odata"}
     /\ HasRef(user_query)
     /\ ~\E i \in 1..Len(fuzzy) :
            LowerText(fuzzy[i].entity) = LowerText(FirstRef(user_query)))
    => /\ candidates # <<>>
       /\ candidates[1].entity = FirstRef(user_query)
       /\ candidates[1].score = 100

\* the entity pattern matched over the whole string: a prefix, an
\* underscore, then word characters up to the last symbol
EntityFullMatch(e) ==
    /\ Len(e) >= 3
    /\ e[1] \in Prefixes
    /\ e[2] = "_"
    /\ \A i \in 3..Len(e) : IsWordSym(e[i])

\* C11: every structured QueryPlan that exists has an entity that matches
\* the pattern prefix, underscore, word characters over its whole string.
C11_EntityFormatEnforced ==
    tenacity /\ llm_pc = "done" /\ llm_result.type = "plan"
        => EntityFullMatch(llm_result.plan.entity)

\* the rendering of one member of a group on its own
MemberRendering(m) ==
    IF m.kind = "group" THEN BuildGroup(m) ELSE RenderCondition(m)

\* C12: for a group with exactly one member, build returns that member's
\* rendered expression with no parentheses around it, whether the member is
\* a condition or a nested group.
C12_SingleMemberUnwrapped ==
    fb_pc = "returned" /\ Len(fb_group.conditions) = 1
        => fb_result.text = MemberRendering(fb_group.conditions[1]).text

\* C13: for a group with two or more non-empty members, build returns the
\* members' renderings in order, each enclosed in one pair of parentheses,
\* joined by the logic keyword between single spaces.
C13_MembersParenthesized ==
    LET ms == fb_group.conditions
    IN  /\ fb_pc = "returned"
        /\ Len(ms) >= 2
        /\ \A i \in 1..Len(ms) : MemberRendering(ms[i]).text # <<>>
        => fb_result.text =
             JoinParts([i \in 1..Len(ms) |->
                           <<"(">> \o MemberRendering(ms[i]).text \o <<")">>],
                       <<" ", fb_group.logic, " ">>)

\* the six accepted textual forms
AcceptedForms == {F_ISO_D, F_ISO_M, F_ISO_S, F_DOT_D, F_DOT_M, F_DOT_S}

\* the call of _normalize_datetime has ended
NormalizeEnded == dt_pc \in {"returned", "raised", "done"}

\* C14: a text in one of the accepted forms is normalized to
\* YYYY-MM-DDTHH:MM:SS with the same date and the hour, minute and second
\* that were given, a missing time being 00:00:00 and missing seconds 00.
C14_GivenTimeKept ==
    NormalizeEnded /\ dt_value.type = "str"
        => \A f \in AcceptedForms :
              Strptime(dt_value.repr, f).ok
                  => /\ dt_result.ok
                     /\ dt_result.text = IsoFormat(Strptime(dt_value.repr, f).value)

\* C15: a text that matches none of the accepted forms makes the
\* normalization raise an error that names the value; no text is returned.
C15_UnparseableRejected ==
    /\ NormalizeEnded
    /\ dt_value.type = "str"
    /\ \A f \in AcceptedForms : ~Strptime(StripText(dt_value.repr), f).ok
    => ~dt_result.ok /\ dt_result.named = dt_value.repr

\* the number of quote characters of a text
QuoteCount(t) == Cardinality({i \in 1..Len(t) : t[i] = "'"})

RECURSIVE Undouble(_)
\* a text with each pair of adjacent quotes read as one quote
Undouble(t) ==
    IF t = <<>> THEN <<>>
    ELSE LET n == IF t[1] = "'" /\ Len(t) >= 2 /\ t[2] = "'" THEN 2 ELSE 1
         IN  <<t[1]>> \o Undouble(SubSeq(t, n + 1, Len(t)))

\* C16: a string-typed value is rendered between single quotes with every
\* quote of the value doubled, so the quotes between the enclosing ones are
\* even in number and read back as the value.
C16_StringQuotesDoubled ==
    /\ fb_pc = "returned"
    /\ Len(fb_group.conditions) = 1
    /\ fb_group.conditions[1].kind = "condition"
    /\ fb_group.conditions[1].value_type = "string"
    => LET c     == fb_group.conditions[1]
           lit   == SubSeq(fb_result.text, Len(c.field) + 4, Len(fb_result.text))
           inner == SubSeq(lit, 2, Len(lit) - 1)
       IN  /\ Len(lit) >= 2
           /\ lit[1] = "'" /\ lit[Len(lit)] = "'"
           /\ QuoteCount(inner) % 2 = 0
           /\ Len(inner) = Len(c.value.repr) + QuoteCount(c.value.repr)
           /\ Undouble(inner) = c.value.repr

\* the condition Name eq "It's" rendered as Name eq 'It''s'
C16_Witness ==
    /\ fb_pc = "returned"
    /\ fb_group = Group("and", <<C_NAME>>)
    /\ fb_result.text = <<"Name", " ", "eq", " ", "'", "It", "'", "'", "s", "'">>

\* C17: when the parameter map supplies no value for $format the URL has
\* the query parameter $format=json, and a supplied value is kept.
C17_FormatJsonPresent ==
    ub_pc = "returned"
        => LET given == IF "$format" \in DOMAIN ub_args.params
                        THEN ub_args.params["$format"] ELSE <<>>
               query == ub_result.url.query
           IN  /\ "$format" \in DOMAIN query
               /\ query["$format"] = IF given = <<>> THEN <<"json">> ELSE given

\* the two hexadecimal digits of a percent escape
HexPairs == {"20", "27", "25", "2F", "28", "29", "D1", "8F", "0A"}

\* a text that holds percent escapes and otherwise only characters that
\* need no escape
IsPercentEncoded(t) ==
    /\ \E i \in 1..Len(t) : t[i] = "%"
    /\ \A i \in 1..Len(t) :
          IF t[i] = "%" THEN i < Len(t) /\ t[i + 1] \in HexPairs
          ELSE AlwaysSafe(t[i])

\* C18: a $filter value that is already percent-encoded appears in the URL
\* as the same text.
C18_NoDoubleEncoding ==
    /\ ub_pc = "returned"
    /\ "$filter" \in DOMAIN ub_args.params
    /\ IsPercentEncoded(ub_args.params["$filter"])
    => ub_result.url.query["$filter"] = ub_args.params["$filter"]

\* C19: the root of the URL is the base without its trailing slashes,
\* completed to end in /odata/standard.odata (a base that ends so, in any
\* letter case, is used as is; one that ends in /odata gets /standard.odata;
\* any other gets /odata/standard.odata), then a slash and the entity.
C19_BaseNormalized ==
    ub_pc = "returned"
        => LET b    == RStripSlash(ub_args.base_url)
               e    == Quote(NormalizeEntityName(ub_args.entity), EntitySafe)
               root == ub_result.url.root
               n    == SubSeq(root, 1, Len(root) - Len(e) - 1)
               full == EndsWith(LowerText(b), ODATA \o STANDARD)
               half == ~full /\ EndsWith(LowerText(b), ODATA)
           IN  /\ EndsWith(root, <<"/">> \o e)
               /\ EndsWith(LowerText(n), ODATA \o STANDARD)
               /\ full => n = b
               /\ half => n = b \o STANDARD
               /\ ~full /\ ~half => n = b \o ODATA \o STANDARD

\* the base https://example/odata/ with the entity Document_w
C19_Witness ==
    /\ ub_pc = "returned"
    /\ ub_args.base_url = SERVICE \o ODATA \o <<"/">>
    /\ ub_args.entity = E_SALE
    /\ ub_result.url.root =
         <<"https://example", "/", "odata", "/", "standard.odata", "/",
           "Document", "_", "w">>

\* C20: normalizing the text that a normalization returned gives that same
\* text.
C20_NormalizeIdempotent ==
    dt_pc = "done" => dt_again.ok /\ dt_again.text = dt_result.text


\* C21: normalizing the name that normalize_entity_name returned gives that
\* same name, for names with and without a known type word, with no, one or
\* several underscores, in any case; Catalog_s comes back as it was given.
C21_EntityNameIdempotent ==
    /\ ne_pc = "done" => ne_again = ne_result
    /\ ne_pc \in {"returned", "done"} /\ ne_entity = E_ITEMS
          => ne_result = E_ITEMS

\* a lower-case type word followed by two underscores
C21_Witness ==
    /\ ne_pc = "done"
    /\ ne_entity = <<"catalog", "_", "_", "s">>
    /\ ne_result = E_ITEMS
    /\ ne_again = E_ITEMS


\* the plan's entity has a record with at least one field
HasKnownFields == FieldsByEntity(pv_metadata, pv_plan.entity) # {}

RECURSIVE GroupFields(_)
\* the field names of the conditions of a group at every depth, in order
GroupFields(group) ==
    Concat([i \in 1..Len(group.conditions) |->
               IF group.conditions[i].kind = "group"
               THEN GroupFields(group.conditions[i])
               ELSE <<group.conditions[i].field>>])

\* every field name of a plan, in order: filter, select, orderby
PlanFields(p) ==
    GroupFields(p.filter_group) \o p.select
    \o [i \in 1..Len(p.orderby) |-> p.orderby[i][1]]

RECURSIVE BlankFields(_)
\* a group with the field name of every condition blanked
BlankFields(group) ==
    Group(group.logic,
          [i \in 1..Len(group.conditions) |->
              IF group.conditions[i].kind = "group"
              THEN BlankFields(group.conditions[i])
              ELSE [group.conditions[i] EXCEPT !.field = <<>>]])

\* C22: for a plan whose entity is absent from the metadata or has no known
\* fields, validate returns no unknown-field message: the list holds the
\* unknown-entity message when the entity is absent and nothing else.
\* (validate has no raising path: every call returns a list.)
C22_NoFieldErrorWithoutFields ==
    pv_pc \in {"validated", "fixed", "done"} /\ ~HasKnownFields
        => pv_errors = IF pv_plan.entity \in Entities(pv_metadata) THEN <<>>
                       ELSE <<Error("entity", pv_plan.entity)>>

\* an absent entity with names in filter, select and orderby
C22_Witness ==
    /\ pv_pc = "validated"
    /\ pv_plan.entity \notin Entities(pv_metadata)
    /\ pv_plan.filter_group.conditions # <<>>
    /\ pv_plan.select # <<>> /\ pv_plan.orderby # <<>>
    /\ pv_errors = <<Error("entity", pv_plan.entity)>>

\* C23: suggest_fixes leaves every field name that is in the known field
\* set as it was, in the filter conditions at every depth, in select and in
\* orderby.
C23_KnownFieldsKept ==
    pv_pc \in {"fixed", "done"}
        => \A i \in DOMAIN PlanFields(pv_plan) :
              PlanFields(pv_plan)[i] \in FieldsByEntity(pv_metadata, pv_plan.entity)
                  => PlanFields(pv_fixed)[i] = PlanFields(pv_plan)[i]

\* C24: suggest_fixes changes nothing but field names: entity, top, expand,
\* the filter tree apart from its field names, the length of select, the
\* length of orderby and its directions are those of the plan given.
C24_OnlyFieldNamesChange ==
    pv_pc \in {"fixed", "done"}
        => /\ pv_fixed.entity = pv_plan.entity
           /\ pv_fixed.top = pv_plan.top
           /\ pv_fixed.expand = pv_plan.expand
           /\ BlankFields(pv_fixed.filter_group) = BlankFields(pv_plan.filter_group)
           /\ Len(pv_fixed.select) = Len(pv_plan.select)
           /\ Len(pv_fixed.orderby) = Len(pv_plan.orderby)
           /\ \A i \in DOMAIN pv_plan.orderby :
                 pv_fixed.orderby[i][2] = pv_plan.orderby[i][2]

\* a plan with a nested filter, top and expand whose names were fixed
C24_Witness ==
    /\ pv_pc = "fixed"
    /\ pv_fixed # pv_plan
    /\ pv_plan.top = 5 /\ pv_plan.expand # <<>>
    /\ \E i \in DOMAIN pv_plan.filter_group.conditions :
          pv_plan.filter_group.conditions[i].kind = "group"
    /\ Len(pv_plan.orderby) = 2

\* C28: for a plan whose entity has known fields and whose validation
\* returned errors, every field name of the plan after suggest_fixes is in
\* the known field set and validating it again returns the empty list.
C28_FixedPlanValidates ==
    pv_pc = "done" /\ HasKnownFields /\ pv_errors # <<>>
        => /\ \A i \in DOMAIN PlanFields(pv_fixed) :
                 PlanFields(pv_fixed)[i] \in FieldsByEntity(pv_metadata, pv_plan.entity)
           /\ pv_errors2 = <<>>

\* unknown names in the nested filter, in select and in orderby
C28_Witness ==
    /\ pv_pc = "done" /\ HasKnownFields
    /\ Len(pv_errors) >= 3
    /\ \E i \in DOMAIN pv_errors : pv_errors[i].where = "filter"
    /\ \E i \in DOMAIN pv_errors : pv_errors[i].where = "select"
    /\ \E i \in DOMAIN pv_errors : pv_errors[i].where = "orderby"
    /\ pv_errors2 = <<>>


\* C25: the legacy plan has the entity of the structured plan and exactly
\* these parameters, each present only when its component is not empty:
\* $filter the rendered filter, $select the names joined by commas, $top the
\* number, $orderby the "field direction" pairs joined by commas in order,
\* $expand the names joined by commas.
C25_TranslationExact ==
    sl_pc \in {"translated", "sent"}
        => LET p == sl_plan
               rendered == FilterBuild(p.filter_group).text
               params == sl_legacy.params
           IN  /\ sl_legacy.entity = p.entity
               /\ DOMAIN params \subseteq
                     {"$filter", "$select", "$top", "$orderby", "$expand"}
               /\ "$filter" \in DOMAIN params <=> rendered # <<>>
               /\ "$select" \in DOMAIN params <=> p.select # <<>>
               /\ "$top" \in DOMAIN params <=> p.top # 0
               /\ "$orderby" \in DOMAIN params <=> p.orderby # <<>>
               /\ "$expand" \in DOMAIN params <=> p.expand # <<>>
               /\ rendered # <<>> => params["$filter"] = rendered
               /\ p.select # <<>> => params["$select"] = JoinParts(p.select, <<",">>)
               /\ p.top # 0 => params["$top"] = <<p.top>>
               /\ p.orderby # <<>>
                     => params["$orderby"] =
                          JoinParts([i \in 1..Len(p.orderby) |->
                                        p.orderby[i][1] \o <<" ">>
                                        \o <<p.orderby[i][2]>>], <<",">>)
               /\ p.expand # <<>> => params["$expand"] = JoinParts(p.expand, <<",">>)

\* a plan with every component: Code asc,Name desc
C25_Witness ==
    /\ sl_pc = "translated"
    /\ DOMAIN sl_legacy.params =
          {"$filter", "$select", "$top", "$orderby", "$expand"}
    /\ sl_legacy.params["$orderby"] =
          <<"Code", " ", "asc", ",", "Name", " ", "desc">>
    /\ sl_legacy.params["$select"] = <<"Code", ",", "Name">>
    /\ sl_legacy.params["$expand"] = <<"Owner", ",", "Parent">>

\* the $-prefixed lower-case name of a recognized bare key of the sample
\* items, "" for every other key
DollarName(k) ==
    CASE k \in {"filter", "Filter", " filter "} -> "$filter"
      [] k \in {"top", " top "} -> "$top"
      [] k = "Select" -> "$select"
      [] k \in {"format", "Format"} -> "$format"
      [] k = "OrderBy" -> "$orderby"
      [] k = " expand " -> "$expand"
      [] OTHER -> ""

\* the name an item is stored under
ItemName(k) == IF DollarName(k) # "" THEN DollarName(k) ELSE k

\* the item has a value that is not null or empty and a key that is not
\* empty
Supplied(i) == np_items[i][2] # <<>> /\ np_items[i][1] # " "

\* what every statement about normalize_params shares: entries without
\* value or key are absent, $format is present and is json when no entry
\* supplies it
DroppedAndFormat ==
    /\ \A k \in DOMAIN np_result \ {"$format"} :
          \E i \in DOMAIN np_items : Supplied(i) /\ ItemName(np_items[i][1]) = k
    /\ "$format" \in DOMAIN np_result
    /\ (\A i \in DOMAIN np_items :
           Supplied(i) => ItemName(np_items[i][1]) # "$format")
          => np_result["$format"] = <<"json">>

\* the raw map {filter: "A eq B", top: 10}
ScenarioE == <<<<"filter", <<"A", " ", "eq", " ", "B">>>>, <<"top", <<10>>>>>>

ScenarioEResult ==
    [k \in {"$filter", "$top", "$format"} |->
        CASE k = "$filter" -> <<"A", " ", "eq", " ", "B">>
          [] k = "$top" -> <<10>>
          [] k = "$format" -> <<"json">>]

RewrittenClause(c) ==
    IF c.kind # "date" THEN ClauseText(c)
    ELSE c.before \o <<"datetime", "'">>
         \o (IF c.raw = D_DAY THEN D_DAY \o <<"T", "00", ":", "00", ":", "00">>
             ELSE D_TIME)
         \o <<"'">>

\* a datetime' literal that opens inside a datetime' literal
DoublyWrapped(t) ==
    \E i \in 1..(Len(t) - 2) :
        /\ Lower(t[i]) = "datetime" /\ t[i + 1] = "'"
        /\ Lower(t[i + 2]) = "datetime"

\* C27: when no clause of the filter holds a datetime' literal, every bare
\* quoted date is rewritten into datetime'YYYY-MM-DDTHH:MM:SS' (00:00:00
\* without a time) and the rest of the text stays; when a clause holds a
\* datetime' literal the filter is returned unchanged; no output holds a
\* doubly wrapped literal, and a second pass changes nothing.
C27_DatesWrappedOnce ==
    /\ nf_pc \in {"returned", "done"}
          => /\ nf_result =
                   IF \E i \in DOMAIN nf_segments : nf_segments[i].kind = "wrapped"
                   THEN nf_filter
                   ELSE JoinParts([i \in 1..Len(nf_segments) |->
                                      RewrittenClause(nf_segments[i])],
                                  <<" ", "and", " ">>)
             /\ ~DoublyWrapped(nf_result)
    /\ nf_pc = "done" => nf_again = nf_result

\* a day and a day with a lower-case t, both rewritten
C27_Witness ==
    /\ nf_pc = "done"
    /\ nf_filter = <<"D", " ", "ge", " ">> \o Quoted(D_DAY)
                   \o <<" ", "and", " ", "D", " ", "ge", " ">> \o Quoted(D_LOW)
    /\ nf_result = <<"D", " ", "ge", " ", "datetime">>
                   \o Quoted(D_DAY \o <<"T", "00", ":", "00", ":", "00">>)
                   \o <<" ", "and", " ", "D", " ", "ge", " ", "datetime">>
                   \o Quoted(D_TIME)

\* C29: on the legacy path the $filter among the parameters that fetch
\* encodes and sends is the text the filter builder rendered for the plan's
\* filter_group, symbol for symbol.
C29_RenderedFilterSent ==
    sl_pc = "sent"
        => LET rendered == FilterBuild(sl_plan.filter_group).text
           IN  IF rendered = <<>> THEN "$filter" \notin DOMAIN sl_sent
               ELSE /\ "$filter" \in DOMAIN sl_sent
                    /\ sl_sent["$filter"] = rendered


\* the calls whose dump subprocess is running
Dumping == {t \in Threads : mg_pc[t] = "dumping"}

\* C30: when no call asks for a forced update, at most one call at a time
\* runs the dump subprocess into the shared dump directory.
C30_OneDumpAtATime ==
    (\A t \in Threads : ~mg_force[t]) => Cardinality(Dumping) <= 1

============================================================================
